---- MODULE Spec2Model ----
(***************************************************************************)
(* IRQ dashboard: the access gate (middleware.ts with the login, auth and  *)
(* sheet route handlers) and the dashboard's data loader (app/page.tsx).   *)
(*                                                                         *)
(* Two specifications share the module:                                    *)
(*   SpecGate  one browser sending requests through the edge middleware to *)
(*             the route handlers, with a clock that moves forward;        *)
(*   SpecDash  the mounted Page component: fetch cycles started by mount,  *)
(*             the interval timer and the Refresh button, interleaved at   *)
(*             their await points.                                         *)
(* Strings that the code inspects character by character (URL paths) are   *)
(* tuples of one-character strings.                                        *)
(***************************************************************************)
EXTENDS Integers, Sequences, FiniteSets, TLC

VARIABLES
    now,        \* Math.floor(Date.now() / 1000): epoch seconds
    jar,        \* the browser's irq_auth cookie: value and expiry instant
    req,        \* the request last sent
    resp,       \* the response it got
    requestIdRef,   \* Page: useRef(0), the current request id
    rows,           \* Page state: normalized sales records
    turfRaw,        \* Page state: raw grid
    loading,        \* Page state
    error,          \* Page state
    autoRefresh,    \* Page state
    timerFn,        \* the loadData function object the interval's tick closes over
                    \* (0: none, or one that no call has gone through yet)
    lastHashRef,    \* per live loadData function object: its _lastHashRef.current
    cycles,         \* the loadData / onClick activations that have not returned yet
    life,           \* "constructed" (rendered, effects not yet run), "mounted", "unmounted"
    calc            \* the pure function applied last: its name, argument and result

gateVars == <<now, jar, req, resp>>
dashVars == <<requestIdRef, rows, turfRaw, loading, error, autoRefresh,
              timerFn, lastHashRef, cycles, life>>
vars == <<now, jar, req, resp, requestIdRef, rows, turfRaw, loading, error,
          autoRefresh, timerFn, lastHashRef, cycles, life, calc>>

(***************************************************************************)
(* Bounds of the model                                                     *)
(***************************************************************************)
StartTime == 1000       \* the clock's first reading
GridDays == 30          \* the clock is read every GridDays days ...
MaxTicks == 3           \* ... MaxTicks times, and around every expiry instant
MaxCycles == 3          \* highest request id handed to a loadData call

(***************************************************************************)
(* Character-level helpers                                                 *)
(***************************************************************************)
StartsWith(s, p) == Len(s) >= Len(p) /\ SubSeq(s, 1, Len(p)) = p

\* A regular-expression literal in which "." matches any character, as a prefix.
MatchesAt(s, pat) ==
    /\ Len(s) >= Len(pat)
    /\ \A i \in 1..Len(pat) : pat[i] = "." \/ s[i] = pat[i]

PRoot == <<"/">>
PLogin == <<"/","l","o","g","i","n">>
PApiAuth == <<"/","a","p","i","/","a","u","t","h">>
PApiLogin == <<"/","a","p","i","/","l","o","g","i","n">>
PApiSheet == <<"/","a","p","i","/","s","h","e","e","t">>
PFavicon == <<"/","f","a","v","i","c","o","n",".","i","c","o">>
PRobots == <<"/","r","o","b","o","t","s",".","t","x","t">>
PSitemap == <<"/","s","i","t","e","m","a","p",".","x","m","l">>
PNextStatic == <<"/","_","n","e","x","t","/","s","t","a","t","i","c","/","a",".","j","s">>
PNextData == <<"/","_","n","e","x","t","/","d","a","t","a">>
PApiHealthz == <<"/","a","p","i","/","h","e","a","l","t","h","z">>
PFaviconX == <<"/","f","a","v","i","c","o","n",".","i","c","o","x">>
PNone == <<>>

(***************************************************************************)
(* middleware.ts                                                           *)
(***************************************************************************)
PUBLIC_PATHS == {PLogin, PApiAuth, PFavicon, PRobots, PSitemap}

PUBLIC_PREFIXES ==
    { <<"/","_","n","e","x","t","/">>,
      <<"/","s","t","a","t","i","c","/">>,
      <<"/","p","u","b","l","i","c","/">>,
      <<"/","a","p","i","/","h","e","a","l","t","h">> }

\* process.env.TRUSTED_IPS, split on commas, trimmed, blanks dropped
getTrustedIPs == {"1.2.3.4"}

\* String.prototype.trim on the header entries the model sends
Trim(s) == CASE s = " 1.2.3.4" -> "1.2.3.4"
             [] s = " " -> ""
             [] OTHER -> s

\* null is the empty string: both are falsy where the code tests them
getClientIP(r) ==
    IF r.xff # <<>> THEN Trim(r.xff[1])
    ELSE r.ip

pathIsPublic(pathname) ==
    \/ pathname \in PUBLIC_PATHS
    \/ \E p \in PUBLIC_PREFIXES : StartsWith(pathname, p)

\* A matcher that also leaves out the API routes: "/((?!_next|api|login|favicon.ico).*)"
matcher_SkipsApi(pathname) ==
    /\ Len(pathname) >= 1
    /\ pathname[1] = "/"
    /\ LET rest == SubSeq(pathname, 2, Len(pathname))
       IN  /\ ~MatchesAt(rest, <<"_","n","e","x","t">>)
           /\ ~MatchesAt(rest, <<"a","p","i">>)
           /\ ~MatchesAt(rest, <<"l","o","g","i","n">>)
           /\ ~MatchesAt(rest, <<"f","a","v","i","c","o","n",".","i","c","o">>)

\* config.matcher: "/((?!_next/static|_next/image|favicon.ico).*)"
matcher(pathname) ==
    /\ Len(pathname) >= 1
    /\ pathname[1] = "/"
    /\ LET rest == SubSeq(pathname, 2, Len(pathname))
       IN  /\ ~MatchesAt(rest, <<"_","n","e","x","t","/","s","t","a","t","i","c">>)
           /\ ~MatchesAt(rest, <<"_","n","e","x","t","/","i","m","a","g","e">>)
           /\ ~MatchesAt(rest, <<"f","a","v","i","c","o","n",".","i","c","o">>)

\* ---------- Token helpers ----------
\* A cookie value is [form, u, exp, mac]:
\*   form "none"   no cookie / the empty string
\*   form "plain"  a string without a "." (the literal "1")
\*   form "token"  payload "." signature, payload = b64u(JSON {u, exp})
NoMac == <<"", "", 0>>
NoCookie == [form |-> "none", u |-> "", exp |-> 0, mac |-> NoMac]
Sentinel == [form |-> "plain", u |-> "1", exp |-> 0, mac |-> NoMac]

\* HMAC-SHA256 of the payload under AUTH_SECRET: only the server can compute it
sign(u, exp) == <<"hmac", u, exp>>

\* verify that never looks at the signature
verify_Anything(u, exp, signature) == TRUE

verify(u, exp, signature) == signature = sign(u, exp)

DaySeconds == 24 * 3600

createToken(username, days, t) ==
    LET exp == t + days * DaySeconds
    IN  [form |-> "token", u |-> username, exp |-> exp, mac |-> sign(username, exp)]

\* verifyToken with the expiry test off by one: the token dies a second early
verifyToken_ExpiresEarly(token, t) ==
    /\ token.form = "token"
    /\ verify(token.u, token.exp, token.mac)
    /\ ~(token.exp = 0 \/ token.exp <= t)

verifyToken(token, t) ==
    IF token.form # "token" THEN FALSE          \* !payload || !sig
    ELSE IF ~verify(token.u, token.exp, token.mac) THEN FALSE
    ELSE IF token.exp = 0 \/ token.exp < t THEN FALSE
    ELSE TRUE

\* What NextResponse.next() / NextResponse.redirect(url) decide
GateNext == [gate |-> "next", loc |-> PNone, nextParam |-> PNone]
GateSkip == [gate |-> "skip", loc |-> PNone, nextParam |-> PNone]

middleware(r, t) ==
    IF pathIsPublic(r.path) THEN GateNext
    ELSE IF getClientIP(r) # "" /\ getClientIP(r) \in getTrustedIPs THEN GateNext
    ELSE IF r.cookie.form # "none" /\ verifyToken(r.cookie, t) THEN GateNext
    ELSE [gate |-> "redirect", loc |-> PLogin, nextParam |-> r.path]

(***************************************************************************)
(* Route handlers.  A handler's answer is [status, body, loc, nextParam,   *)
(* errParam, set, cookie, maxAge]; set says whether a Set-Cookie header    *)
(* for irq_auth is present.                                                *)
(***************************************************************************)
Answer(status, body) ==
    [status |-> status, body |-> body, loc |-> PNone, nextParam |-> PNone,
     errParam |-> FALSE, set |-> FALSE, cookie |-> NoCookie, maxAge |-> 0]

NoBody == [parses |-> TRUE, username |-> "", password |-> "", next |-> PNone]

\* app/api/login/route.ts
LoginPOST(b) ==
    IF ~b.parses THEN Answer(400, "Bad request")          \* req.json() threw
    ELSE IF b.username = "admin" /\ b.password = "Welcome123!"
    THEN [Answer(200, "OK") EXCEPT !.set = TRUE, !.cookie = Sentinel,
                                   !.maxAge = 60 * 60 * 24 * 90]
    ELSE Answer(401, "Invalid credentials")

\* app/api/auth/route.ts
ADMIN_USER == "admin"
ADMIN_PASS == "Welcome123!"

AuthPOST(b, t) ==
    IF ~b.parses THEN Answer(500, "")                     \* req.formData() threw
    ELSE LET next == IF b.next = PNone THEN PRoot ELSE b.next
         IN  IF b.username = ADMIN_USER /\ b.password = ADMIN_PASS
             THEN [Answer(307, "") EXCEPT !.loc = next, !.set = TRUE,
                       !.cookie = createToken(b.username, 30, t),
                       !.maxAge = 30 * 24 * 60 * 60]
             ELSE [Answer(307, "") EXCEPT !.loc = PLogin, !.errParam = TRUE,
                       !.nextParam = next]

\* app/api/sheet/route.ts; up is what the upstream fetch did
UpstreamOutcomes == {"unset", "throws", "non2xx", "empty", "csv"}

SheetGET(up) ==
    CASE up = "unset"  -> Answer(500, "ERROR: Missing SHEET_CSV_URL")
      [] up = "throws" -> Answer(500, "ERROR: Fetch threw")
      [] up = "non2xx" -> Answer(502, "ERROR: Upstream fetch failed")
      [] up = "empty"  -> Answer(502, "ERROR: Upstream returned empty body")
      [] OTHER         -> Answer(200, "csv")

\* The file holds a second `export async function GET`, which passes the
\* upstream text on without looking at it
SheetGET_second(up) ==
    CASE up = "unset"  -> Answer(500, "Missing SHEET_CSV_URL environment variable")
      [] up = "throws" -> Answer(500, "Fetch error")
      [] up = "non2xx" -> Answer(502, "Upstream fetch failed")
      [] up = "empty"  -> Answer(200, "")
      [] OTHER         -> Answer(200, "csv")

\* Which of the two declarations answers is the build's choice
SheetHandlers == {"first", "second"}

\* fetch(url) calls a handler makes: none without a URL, else one, never a retry
UpstreamCalls(up) == IF up = "unset" THEN 0 ELSE 1

\* The app router: one handler per route file
Route(r, t) ==
    CASE r.path = PApiLogin /\ r.method = "POST" -> LoginPOST(r.body)
      [] r.path = PApiAuth /\ r.method = "POST"  -> AuthPOST(r.body, t)
      [] r.path = PApiSheet /\ r.method = "GET"
            -> IF r.handler = "second" THEN SheetGET_second(r.up) ELSE SheetGET(r.up)
      [] r.path = PRoot /\ r.method = "GET"      -> Answer(200, "dashboard")
      [] r.path = PLogin /\ r.method = "GET"     -> Answer(200, "loginPage")
      [] r.path \in {PFavicon, PRobots, PSitemap, PNextStatic} /\ r.method = "GET"
                                                 -> Answer(200, "asset")
      [] r.path \in {PRoot, PLogin, PApiLogin, PApiAuth, PApiSheet}
                                                 -> Answer(405, "")
      [] OTHER                                   -> Answer(404, "")

\* The gate's decision on a request: the middleware runs where the matcher says
Gate(r, t) == IF matcher(r.path) THEN middleware(r, t) ELSE GateSkip

\* Edge pipeline: the middleware's redirect ends the request, otherwise the
\* route handler answers
Respond(r, t) ==
    LET g == Gate(r, t)
    IN  IF g.gate = "redirect"
        THEN [gate |-> "redirect", ans |-> [Answer(307, "") EXCEPT !.loc = g.loc,
                                               !.nextParam = g.nextParam]]
        ELSE [gate |-> g.gate, ans |-> Route(r, t)]

(***************************************************************************)
(* The browser and the clock                                               *)
(***************************************************************************)
MaxNow == StartTime + MaxTicks * GridDays * DaySeconds

Paths == {PRoot, PLogin, PApiAuth, PApiLogin, PApiSheet, PFavicon, PNextStatic,
          PNextData, PApiHealthz, PFaviconX}

\* x-forwarded-for as its comma-separated entries; <<>> is no header

Bodies ==
    { [parses |-> TRUE, username |-> "admin", password |-> "Welcome123!", next |-> PNone],
      [parses |-> TRUE, username |-> "admin", password |-> "Welcome123!", next |-> PApiSheet],
      [parses |-> TRUE, username |-> "admin", password |-> "letmein", next |-> PNone],
      [parses |-> FALSE, username |-> "", password |-> "", next |-> PNone] }

\* The cookie the browser attaches: the jar's, while it has not expired
BrowserCookie == IF jar.value.form # "none" /\ now <= jar.expires
                 THEN jar.value ELSE NoCookie

\* Cookie headers written by hand: none, the literal "1", the jar's token kept
\* past its Max-Age, the same with the expiry pushed out and the old signature,
\* and a token signed without the secret
HandMade ==
    {NoCookie, Sentinel, jar.value,
     [form |-> "token", u |-> "admin", exp |-> MaxNow + 1,
      mac |-> <<"guess", "admin", MaxNow + 1>>]}
    \cup (IF jar.value.form = "token"
          THEN {[jar.value EXCEPT !.exp = MaxNow + 1]} ELSE {})

\* Who the request seems to come from: the x-forwarded-for entries and
\* NextRequest.ip
ClientAddrs ==
    { [xff |-> <<>>, ip |-> ""],
      [xff |-> <<>>, ip |-> "1.2.3.4"],
      [xff |-> <<" 1.2.3.4">>, ip |-> ""],
      [xff |-> <<"9.9.9.9", "1.2.3.4">>, ip |-> ""],
      [xff |-> <<" ">>, ip |-> "1.2.3.4"] }

Request(p, m, a, c, b, u) ==
    [path |-> p, method |-> m, xff |-> a.xff, ip |-> a.ip, cookie |-> c,
     body |-> b, up |-> u, handler |-> "first"]

\* Inputs that no handler reads are left at their default: a body goes with a
\* POST to a login route, an upstream outcome with GET /api/sheet
Requests ==
    LET Cookies == {BrowserCookie} \cup HandMade
    IN  { Request(p, "GET", a, c, NoBody, "-") :
            p \in Paths \ {PApiSheet}, a \in ClientAddrs, c \in Cookies }
        \cup { [Request(PApiSheet, "GET", a, c, NoBody, u) EXCEPT !.handler = h] :
            a \in ClientAddrs, c \in Cookies, u \in UpstreamOutcomes,
            h \in SheetHandlers }
        \cup { Request(p, "POST", a, c, b, "-") :
            p \in {PApiLogin, PApiAuth}, a \in ClientAddrs, c \in Cookies, b \in Bodies }
        \cup { Request(PApiSheet, "POST", a, c, NoBody, "-") :
            a \in ClientAddrs, c \in Cookies }

NoRequest ==
    [path |-> PNone, method |-> "GET", xff |-> <<>>, ip |-> "", cookie |-> NoCookie,
     body |-> NoBody, up |-> "-", handler |-> "first"]

NoResponse == [gate |-> "none", ans |-> Answer(0, "")]

InitGate ==
    /\ now = StartTime
    /\ jar = [value |-> NoCookie, setAt |-> 0, expires |-> 0]
    /\ req = NoRequest
    /\ resp = NoResponse

\* The browser sends a request; the edge answers it
Send ==
    /\ req = NoRequest
    /\ \E r \in Requests :
        /\ req' = r
        /\ resp' = Respond(r, now)
    /\ UNCHANGED <<now, jar>>
    /\ UNCHANGED <<dashVars, calc>>

\* The browser takes the response in: it stores the cookie a Set-Cookie header
\* carries, with its creation time and the expiry Max-Age gives it
Receive ==
    /\ req # NoRequest
    /\ jar' = IF resp.ans.set
              THEN [value |-> resp.ans.cookie, setAt |-> now,
                    expires |-> now + resp.ans.maxAge]
              ELSE jar
    /\ req' = NoRequest
    /\ resp' = NoResponse
    /\ UNCHANGED <<now>>
    /\ UNCHANGED <<dashVars, calc>>

\* The instants at which the clock is read
Instants ==
    {StartTime + k * GridDays * DaySeconds : k \in 0..MaxTicks}
    \cup {jar.value.exp + o : o \in {-1, 0, 1}}
    \cup {jar.expires + o : o \in {0, 1}}

\* The clock moves on between requests
Tick ==
    /\ req = NoRequest
    /\ \E t \in Instants : t > now /\ t <= MaxNow /\ now' = t
    /\ UNCHANGED <<jar, req, resp>>
    /\ UNCHANGED <<dashVars, calc>>

NextGate == Send \/ Receive \/ Tick

(***************************************************************************)
(* Properties of the access gate.  They speak about the request in flight  *)
(* (req, resp) in the claim's own terms.                                   *)
(***************************************************************************)
InFlight == req # NoRequest

\* The client IP: the first x-forwarded-for entry, NextRequest.ip without the header
ClientIPOf(r) == IF r.xff # <<>> THEN Trim(r.xff[1]) ELSE r.ip
Allowlisted(r) == ClientIPOf(r) \in {"1.2.3.4"}

\* A valid token: signed by the server for exactly this payload, not yet expired
GenuineToken(c) == c.form = "token" /\ c.mac = <<"hmac", c.u, c.exp>>
ValidToken(c, t) == GenuineToken(c) /\ c.exp >= t

Protected(path) ==
    /\ path \notin {PLogin, PApiAuth, PFavicon, PRobots, PSitemap}
    /\ path \notin {PNextStatic, PNextData, PApiHealthz}

GateRedirectTo(path) ==
    /\ resp.gate = "redirect"
    /\ resp.ans.status = 307
    /\ resp.ans.loc = PLogin
    /\ resp.ans.nextParam = path
    /\ ~resp.ans.set

\* C1: a request to a non-public path that the middleware sees is passed through
\* only if its client IP is allowlisted or its irq_auth cookie is a valid token;
\* otherwise it is redirected to /login with next = the requested path.  Only
\* the request (and the clock) decide: the jar plays no part.
C1_GateDecision ==
    (InFlight /\ Protected(req.path) /\ resp.gate # "skip") =>
        IF Allowlisted(req) \/ ValidToken(req.cookie, now)
        THEN resp.gate = "next"
        ELSE GateRedirectTo(req.path)

\* C1 witness: a protected path admitted on the strength of the cookie alone
C1_Witness ==
    /\ InFlight /\ req.path = PRoot /\ ~Allowlisted(req)
    /\ ValidToken(req.cookie, now) /\ resp.gate = "next"
    /\ resp.ans.body = "dashboard"

C3_LoginCookieAdmits ==
    /\ (InFlight /\ jar.value = Sentinel /\ now <= jar.expires
          /\ req.cookie = jar.value /\ Protected(req.path) /\ resp.gate # "skip"
          /\ ~Allowlisted(req)) => resp.gate = "next"
    /\ (InFlight /\ req.path = PApiLogin /\ req.method = "POST"
          /\ resp.gate # "redirect" /\ req.body.parses
          /\ ~(req.body.username = "admin" /\ req.body.password = "Welcome123!"))
        => (resp.ans.status = 401 /\ ~resp.ans.set)

\* C4 (as claimed): the login form's POST /api/login from a client with no
\* cookie and a non-allowlisted IP reaches the login handler: right credentials
\* set the cookie, wrong ones give an error result, never a gate redirect.
C4_LoginReachable ==
    (InFlight /\ req.path = PApiLogin /\ req.method = "POST"
        /\ req.cookie = NoCookie /\ ~Allowlisted(req) /\ req.body.parses) =>
        /\ resp.gate # "redirect"
        /\ IF req.body.username = "admin" /\ req.body.password = "Welcome123!"
           THEN resp.ans.status = 200 /\ resp.ans.set
           ELSE resp.ans.status = 401 /\ ~resp.ans.set

\* The jar holds a token that POST /api/auth issued
HoldsIssuedToken == jar.value.form = "token"

\* C5: a token issued at t0 with 30 days is accepted at every time up to
\* t0 + 30 days and rejected at every later time; a token whose signature does
\* not verify is rejected at every time; nothing extends a token: the clock
\* only moves forward and a token rejected for expiry stays rejected.
C5_TokenLifetime ==
    /\ [](HoldsIssuedToken =>
            /\ jar.value.exp = jar.setAt + 30 * 24 * 3600
            /\ verifyToken(jar.value, now) = (now <= jar.setAt + 30 * 24 * 3600))
    /\ []((InFlight /\ Protected(req.path) /\ resp.gate # "skip" /\ ~Allowlisted(req)) =>
            /\ (req.cookie = jar.value /\ HoldsIssuedToken) =>
                  ((resp.gate = "next") = (now <= jar.setAt + 30 * 24 * 3600))
            /\ (req.cookie.form = "token" /\ ~GenuineToken(req.cookie)) =>
                  resp.gate = "redirect")
    /\ [][ /\ now' >= now
           /\ (HoldsIssuedToken /\ jar' = jar /\ ~verifyToken(jar.value, now))
                 => ~verifyToken(jar.value, now') ]_vars

\* C5 witness: the token is presented in the very second it expires, and accepted
C5_Witness ==
    /\ InFlight /\ HoldsIssuedToken /\ req.cookie = jar.value
    /\ now = jar.setAt + 30 * 24 * 3600 /\ now > StartTime + 30 * 24 * 3600
    /\ Protected(req.path) /\ ~Allowlisted(req) /\ resp.gate = "next"

(***************************************************************************)
(* app/page.tsx: strings.  A text is a tuple of one-character strings.     *)
(***************************************************************************)
DigitChars == <<"0","1","2","3","4","5","6","7","8","9">>
LowerChars == <<"a","b","c","d","e","f","g","h","i","j","k","l","m",
                "n","o","p","q","r","s","t","u","v","w","x","y","z">>
UpperChars == <<"A","B","C","D","E","F","G","H","I","J","K","L","M",
                "N","O","P","Q","R","S","T","U","V","W","X","Y","Z">>
Range(f) == {f[i] : i \in DOMAIN f}
IndexOf(seq, ch) == CHOOSE i \in DOMAIN seq : seq[i] = ch

IsDigit(ch) == ch \in Range(DigitChars)
IsLetter(ch) == ch \in Range(LowerChars) \cup Range(UpperChars)
IsSpace(ch) == ch \in {" ", "\t", "\n", "\r"}
DigitVal(ch) == IndexOf(DigitChars, ch) - 1

\* String.prototype.charCodeAt, for the characters the model's texts use
CharCode(ch) ==
    CASE IsDigit(ch) -> 48 + DigitVal(ch)
      [] ch \in Range(LowerChars) -> 96 + IndexOf(LowerChars, ch)
      [] ch \in Range(UpperChars) -> 64 + IndexOf(UpperChars, ch)
      [] ch = "\t" -> 9
      [] ch = "\n" -> 10
      [] ch = "\r" -> 13
      [] ch = " " -> 32
      [] ch = "," -> 44
      [] ch = "-" -> 45
      [] ch = "." -> 46
      [] ch = "/" -> 47
      [] ch = "|" -> 124

\* String.prototype.toLowerCase
ToLower(s) ==
    [i \in DOMAIN s |->
        IF s[i] \in Range(UpperChars) THEN LowerChars[IndexOf(UpperChars, s[i])] ELSE s[i]]

RECURSIVE TrimStart(_)
TrimStart(s) == IF s # <<>> /\ IsSpace(Head(s)) THEN TrimStart(Tail(s)) ELSE s

RECURSIVE TrimEnd(_)
TrimEnd(s) ==
    IF s # <<>> /\ IsSpace(s[Len(s)]) THEN TrimEnd(SubSeq(s, 1, Len(s) - 1)) ELSE s

\* String.prototype.trim
TrimStr(s) == TrimEnd(TrimStart(s))

\* s.replace(/\s+/g, " ")
RECURSIVE CollapseSpaces(_)
CollapseSpaces(s) ==
    IF s = <<>> THEN <<>>
    ELSE IF IsSpace(Head(s)) THEN <<" ">> \o CollapseSpaces(TrimStart(s))
    ELSE <<Head(s)>> \o CollapseSpaces(Tail(s))

\* s.split(sep) for a one-character separator
RECURSIVE SplitFrom(_, _, _)
SplitFrom(s, sep, cur) ==
    IF s = <<>> THEN <<cur>>
    ELSE IF Head(s) = sep THEN <<cur>> \o SplitFrom(Tail(s), sep, <<>>)
    ELSE SplitFrom(Tail(s), sep, Append(cur, Head(s)))

Split(s, sep) == SplitFrom(s, sep, <<>>)

\* Unary plus on a string of digits
RECURSIVE ToNumber(_)
ToNumber(ds) ==
    IF ds = <<>> THEN 0
    ELSE (10 * ToNumber(SubSeq(ds, 1, Len(ds) - 1))) + DigitVal(ds[Len(ds)])

AllDigits(s) == \A i \in DOMAIN s : IsDigit(s[i])

(***************************************************************************)
(* loadData's hash (djb2, xor variant).  A 32-bit value is kept as its two *)
(* 16-bit halves [hi, lo].                                                 *)
(***************************************************************************)
RECURSIVE Xor(_, _)
Xor(a, b) ==
    IF a = 0 THEN b
    ELSE IF b = 0 THEN a
    ELSE (((a % 2) + (b % 2)) % 2) + 2 * Xor(a \div 2, b \div 2)

\* h = ((h << 5) + h) ^ c, on 32 bits
HashStep(h, c) ==
    LET lo33 == h.lo * 33
        hi33 == (h.hi * 33) + (lo33 \div 65536)
    IN  [hi |-> Xor(hi33 % 65536, c \div 65536), lo |-> Xor(lo33 % 65536, c % 65536)]

RECURSIVE HashFrom(_, _)
HashFrom(h, s) == IF s = <<>> THEN h ELSE HashFrom(HashStep(h, CharCode(Head(s))), Tail(s))

\* (h >>> 0).toString(36), as the tuple of its base-36 digits
RECURSIVE ToString36(_)
ToString36(h) ==
    LET qhi == h.hi \div 36
        mid == ((h.hi % 36) * 65536) + h.lo
        q == [hi |-> qhi, lo |-> mid \div 36]
        d == mid % 36
        ch == IF d < 10 THEN DigitChars[d + 1] ELSE LowerChars[d - 9]
    IN  IF q.hi = 0 /\ q.lo = 0 THEN <<ch>> ELSE Append(ToString36(q), ch)

hash(s) == ToString36(HashFrom([hi |-> 0, lo |-> 5381], s))

(***************************************************************************)
(* Papa.parse on comma-separated text without quotes                       *)
(***************************************************************************)
\* { header: false, skipEmptyLines: false }: every line, as its fields
ParseRaw(text) ==
    IF text = <<>> THEN <<>>
    ELSE LET ls == Split(text, "\n") IN [i \in DOMAIN ls |-> Split(ls[i], ",")]

\* { header: true, skipEmptyLines: true }: one object per non-empty line after
\* the first; an object is the tuple of its <<key, value>> entries
ParseHeader(text) ==
    LET ls == SelectSeq(Split(text, "\n"), LAMBDA l : l # <<>>)
    IN  IF ls = <<>> THEN <<>>
        ELSE LET hdr == Split(ls[1], ",")
                 Obj(l) == LET f == Split(l, ",")
                           IN  [i \in 1..(IF Len(f) < Len(hdr) THEN Len(f) ELSE Len(hdr))
                                  |-> <<hdr[i], f[i]>>]
             IN  [i \in 1..(Len(ls) - 1) |-> Obj(ls[i + 1])]

(***************************************************************************)
(* Month and date parsing                                                  *)
(***************************************************************************)
MonthIds ==
    << <<"j","a","n">>, <<"f","e","b">>, <<"m","a","r">>, <<"a","p","r">>,
       <<"m","a","y">>, <<"j","u","n">>, <<"j","u","l">>, <<"a","u","g">>,
       <<"s","e","p">>, <<"o","c","t">>, <<"n","o","v">>, <<"d","e","c">> >>

\* null is 0
monthNameToIndex(name) ==
    LET id == ToLower(SubSeq(name, 1, IF Len(name) < 3 THEN Len(name) ELSE 3))
    IN  IF id \in Range(MonthIds) THEN IndexOf(MonthIds, id) ELSE 0

\* The length of the longest prefix of s whose characters satisfy Cls
RunLen(s, Cls(_)) ==
    LET bad == {i \in DOMAIN s : ~Cls(s[i])}
    IN  IF bad = {} THEN Len(s) ELSE (CHOOSE i \in bad : \A j \in bad : i <= j) - 1

Drop(s, n) == SubSeq(s, n + 1, Len(s))
Take(s, n) == SubSeq(s, 1, n)
Clamp(lo, x, hi) == IF x < lo THEN lo ELSE IF x > hi THEN hi ELSE x

NoMatch == [ok |-> FALSE, a |-> <<>>, b |-> <<>>]

\* /^([A-Za-z]+)\s+(\d{4})$/
MatchNameYear(str) ==
    LET n == RunLen(str, IsLetter)
        r1 == Drop(str, n)
        w == RunLen(r1, IsSpace)
        r2 == Drop(r1, w)
    IN  IF n >= 1 /\ w >= 1 /\ Len(r2) = 4 /\ AllDigits(r2)
        THEN [ok |-> TRUE, a |-> Take(str, n), b |-> r2] ELSE NoMatch

\* /^(\d{na})[-\/]?(\d{nb})$/ for one choice of the two group lengths
MatchDigitsSep(str, na, nb) ==
    LET ga == Take(str, na)
        r == Drop(str, na)
        r2 == IF r # <<>> /\ Head(r) \in {"-", "/"} /\ Len(r) = nb + 1 THEN Tail(r) ELSE r
    IN  IF Len(str) >= na /\ AllDigits(ga) /\ Len(r2) = nb /\ AllDigits(r2)
        THEN [ok |-> TRUE, a |-> ga, b |-> r2] ELSE NoMatch

\* /^(\d{1,2})[-\/]?(\d{4})$/: the greedy first group tries two digits first
MatchMonthYear(str) ==
    IF MatchDigitsSep(str, 2, 4).ok THEN MatchDigitsSep(str, 2, 4)
    ELSE MatchDigitsSep(str, 1, 4)

\* /^(\d{4})[-\/]?(\d{1,2})$/
MatchYearMonth(str) ==
    IF MatchDigitsSep(str, 4, 2).ok THEN MatchDigitsSep(str, 4, 2)
    ELSE MatchDigitsSep(str, 4, 1)

NoMonthKey == [ok |-> FALSE, y |-> 0, m |-> 0]

parseMonthKey(s) ==
    IF s = <<>> THEN NoMonthKey
    ELSE
      LET str == TrimStr(s)
          m1 == MatchNameYear(str)
          m2 == MatchMonthYear(str)
          m3 == MatchYearMonth(str)
      IN  IF m1.ok /\ monthNameToIndex(m1.a) # 0 /\ ToNumber(m1.b) # 0
          THEN [ok |-> TRUE, y |-> ToNumber(m1.b), m |-> monthNameToIndex(m1.a)]
          ELSE IF m2.ok
          THEN [ok |-> TRUE, y |-> ToNumber(m2.b), m |-> Clamp(1, ToNumber(m2.a), 12)]
          ELSE IF m3.ok
          THEN [ok |-> TRUE, y |-> ToNumber(m3.a), m |-> Clamp(1, ToNumber(m3.b), 12)]
          ELSE NoMonthKey

\* Calendar arithmetic of new Date(y, monthIndex, day): overflow rolls over
IsLeap(y) == (y % 4 = 0 /\ y % 100 # 0) \/ y % 400 = 0
DaysInMonth(y, m) ==
    IF m = 2 THEN (IF IsLeap(y) THEN 29 ELSE 28)
    ELSE IF m \in {4, 6, 9, 11} THEN 30 ELSE 31

\* month index mi may lie outside 0..11
NormMonth(y, mi) ==
    [y |-> y + ((mi - (mi % 12)) \div 12), m |-> (mi % 12) + 1]

RECURSIVE NormDay(_, _, _)
NormDay(y, m, d) ==
    IF d < 1 THEN
        LET p == NormMonth(y, m - 2) IN NormDay(p.y, p.m, d + DaysInMonth(p.y, p.m))
    ELSE IF d > DaysInMonth(y, m) THEN
        LET n == NormMonth(y, m) IN NormDay(n.y, n.m, d - DaysInMonth(y, m))
    ELSE [y |-> y, m |-> m, d |-> d]

\* new Date(yy, monthIndex, dd): years 0..99 mean 1900..1999
MakeDate(yy, mi, dd) ==
    LET y0 == IF yy >= 0 /\ yy <= 99 THEN 1900 + yy ELSE yy
        ym0 == NormMonth(y0, mi)
    IN  NormDay(ym0.y, ym0.m, dd)

NoDate == [ok |-> FALSE, y |-> 0, m |-> 0, d |-> 0]
SomeDate(dt) == [ok |-> TRUE, y |-> dt.y, m |-> dt.m, d |-> dt.d]

\* /^(\d{1,2})[\/\-](\d{1,2})[\/\-](\d{4})$/
parseDDMMYYYY(s) ==
    IF s = <<>> THEN NoDate
    ELSE
      LET str == TrimStr(s)
          n1 == RunLen(str, IsDigit)
          r1 == Drop(str, n1)
          n2 == IF r1 = <<>> THEN 0 ELSE RunLen(Tail(r1), IsDigit)
          r2 == IF r1 = <<>> THEN <<>> ELSE Drop(Tail(r1), n2)
          r3 == IF r2 = <<>> THEN <<>> ELSE Tail(r2)
      IN  IF /\ n1 \in {1, 2} /\ r1 # <<>> /\ Head(r1) \in {"/", "-"}
             /\ n2 \in {1, 2} /\ r2 # <<>> /\ Head(r2) \in {"/", "-"}
             /\ Len(r3) = 4 /\ AllDigits(r3)
          THEN SomeDate(MakeDate(ToNumber(r3),
                                 ToNumber(Take(Tail(r1), n2)) - 1,
                                 ToNumber(Take(str, n1))))
          ELSE NoDate

\* new Date(string): the ISO form YYYY-MM-DD is the one every engine parses
\* alike; the other strings the model feeds it are no dates in any engine
GenericDate(s) ==
    IF /\ Len(s) = 10 /\ s[5] = "-" /\ s[8] = "-"
       /\ AllDigits(Take(s, 4)) /\ AllDigits(SubSeq(s, 6, 7)) /\ AllDigits(SubSeq(s, 9, 10))
       /\ ToNumber(SubSeq(s, 6, 7)) \in 1..12
       /\ ToNumber(SubSeq(s, 9, 10)) \in 1..DaysInMonth(ToNumber(Take(s, 4)),
                                                        ToNumber(SubSeq(s, 6, 7)))
    THEN [ok |-> TRUE, y |-> ToNumber(Take(s, 4)), m |-> ToNumber(SubSeq(s, 6, 7)),
          d |-> ToNumber(SubSeq(s, 9, 10))]
    ELSE NoDate

(***************************************************************************)
(* normalizeRow.  A number is [num, scale], meaning num / 10^scale, with   *)
(* no trailing zero in the fraction.                                       *)
(***************************************************************************)
\* canon(s) of normalizeRow; the texts of the model carry no byte-order mark
canon(s) == TrimStr(CollapseSpaces(ToLower(s)))

\* lower[name]: the last entry whose canonical key is name; "" when there is none
Lookup(obj, name) ==
    LET hits == {i \in DOMAIN obj : canon(obj[i][1]) = name}
    IN  IF hits = {} THEN <<>>
        ELSE obj[CHOOSE i \in hits : \A j \in hits : j <= i][2]

Filter(s, Keep(_)) == SelectSeq(s, Keep)
ReplaceAll(s, From, to) == [i \in DOMAIN s |-> IF s[i] \in From THEN to ELSE s[i]]

\* s.replace(/\s+/, "-"): the first run of whitespace only
RECURSIVE ReplaceFirstSpaces(_)
ReplaceFirstSpaces(s) ==
    IF s = <<>> THEN <<>>
    ELSE IF IsSpace(Head(s)) THEN <<"-">> \o TrimStart(s)
    ELSE <<Head(s)>> \o ReplaceFirstSpaces(Tail(s))

\* Drop the zeros that end a fraction
RECURSIVE TrimZeros(_)
TrimZeros(ds) ==
    IF ds # <<>> /\ ds[Len(ds)] = "0" THEN TrimZeros(SubSeq(ds, 1, Len(ds) - 1)) ELSE ds

RECURSIVE Pow10(_)
Pow10(k) == IF k = 0 THEN 1 ELSE 10 * Pow10(k - 1)

Zero == [num |-> 0, scale |-> 0]

\* parseFloat on a string over 0-9 . - : the longest numeric prefix, NaN (here
\* ok = FALSE) when there is none
parseFloat(c) ==
    LET neg == c # <<>> /\ Head(c) = "-"
        body == IF neg THEN Tail(c) ELSE c
        ni == RunLen(body, IsDigit)
        r == Drop(body, ni)
        nf == IF r # <<>> /\ Head(r) = "." THEN RunLen(Tail(r), IsDigit) ELSE 0
        frac == TrimZeros(IF nf = 0 THEN <<>> ELSE Take(Tail(r), nf))
        mag == (ToNumber(Take(body, ni)) * Pow10(Len(frac))) + ToNumber(frac)
    IN  IF ni + nf = 0 THEN [ok |-> FALSE, num |-> 0, scale |-> 0]
        ELSE [ok |-> TRUE, num |-> IF neg THEN 0 - mag ELSE mag, scale |-> Len(frac)]

\* A cleaner that never reads the comma as the decimal point
normNum_PeriodDecimalOnly(v) ==
    LET s == TrimStr(v)
        cleaned == Filter(s, LAMBDA ch : IsDigit(ch) \/ ch \in {".", "-"})
        f == parseFloat(cleaned)
    IN  IF s = <<>> THEN Zero
        ELSE IF f.ok THEN [num |-> f.num, scale |-> f.scale] ELSE Zero

normNum(v) ==
    LET s == TrimStr(v)
        n == Len(s)
        hasCommaDec ==
            \/ (n >= 2 /\ s[n - 1] = "," /\ IsDigit(s[n]))
            \/ (n >= 3 /\ s[n - 2] = "," /\ IsDigit(s[n - 1]) /\ IsDigit(s[n]))
        swapped == IF hasCommaDec
                   THEN ReplaceAll(Filter(s, LAMBDA ch : ch # "."), {","}, ".")
                   ELSE s
        cleaned == Filter(swapped, LAMBDA ch : IsDigit(ch) \/ ch \in {".", "-"})
        f == parseFloat(cleaned)
    IN  IF s = <<>> THEN Zero
        ELSE IF f.ok THEN [num |-> f.num, scale |-> f.scale] ELSE Zero

Unspecified == <<"(","U","n","s","p","e","c","i","f","i","e","d",")">>

FirstNonEmpty(a, b) == IF a # <<>> THEN a ELSE b

\* A normalizer that resolves the date from the month column alone
normalizeRow_MonthOnly(r) ==
    LET rep == TrimStr(FirstNonEmpty(Lookup(r, <<"s","a","l","e","s"," ","r","e","p"," ","n","a","m","e">>),
                                     Lookup(r, <<"r","e","p">>)))
        mk == parseMonthKey(TrimStr(Lookup(r, <<"m","o","n","t","h">>)))
    IN  IF rep = <<>> \/ ~mk.ok THEN <<>>
        ELSE << [rep |-> rep, product |-> Unspecified,
                 date |-> [y |-> mk.y, m |-> mk.m, d |-> 1],
                 amount |-> Zero, profit |-> Zero, commission |-> Zero] >>

\* null is the empty tuple, a record the one-element tuple holding it
normalizeRow(r) ==
    LET rep == TrimStr(FirstNonEmpty(Lookup(r, <<"s","a","l","e","s"," ","r","e","p"," ","n","a","m","e">>),
                                     Lookup(r, <<"r","e","p">>)))
        product == FirstNonEmpty(
                     TrimStr(FirstNonEmpty(Lookup(r, <<"p","r","o","d","u","c","t"," ","s","o","l","d">>),
                                           Lookup(r, <<"p","r","o","d","u","c","t">>))),
                     Unspecified)
        rawMonth == TrimStr(Lookup(r, <<"m","o","n","t","h">>))
        alt == ReplaceFirstSpaces(ReplaceAll(rawMonth, {".", "|", "/"}, "-"))
        dcell == Lookup(r, <<"d","a","t","e">>)
        DateOf(mk, dGuess) ==
            IF mk.ok THEN SomeDate(MakeDate(mk.y, mk.m - 1, 1))
            ELSE IF dcell # <<>> /\ dGuess.ok
                 THEN SomeDate(MakeDate(dGuess.y, dGuess.m - 1, 1))
            ELSE NoDate
        Record(date) ==
            IF rep = <<>> THEN <<>>
            ELSE IF ~date.ok THEN <<>>
            ELSE << [rep |-> rep, product |-> product,
                     date |-> [y |-> date.y, m |-> date.m, d |-> date.d],
                     amount |-> normNum(Lookup(r, <<"t","o","t","a","l"," ","s","a","l","e","s"," ","p","r","i","c","e">>)),
                     profit |-> normNum(Lookup(r, <<"p","r","o","f","i","t"," ","n","i","k">>)),
                     commission |-> normNum(Lookup(r, <<"s","a","l","e","s"," ","r","e","p"," ","c","o","m">>))] >>
    \* mk = parseMonthKey(rawMonth) || parseMonthKey(alt), dGuess likewise;
    \* each parse is bound once
    IN  CHOOSE out \in
            {Record(DateOf(IF mk1.ok THEN mk1 ELSE mk2, IF d1.ok THEN d1 ELSE d2)) :
                mk1 \in {parseMonthKey(rawMonth)}, mk2 \in {parseMonthKey(alt)},
                d1 \in {parseDDMMYYYY(dcell)}, d2 \in {GenericDate(dcell)}} : TRUE

\* parsedHeader.data.map(normalizeRow).filter(Boolean)
RECURSIVE NormalizeAll(_)
NormalizeAll(objs) ==
    IF objs = <<>> THEN <<>> ELSE normalizeRow(Head(objs)) \o NormalizeAll(Tail(objs))

(***************************************************************************)
(* app/page.tsx: the Page component's data loader                          *)
(***************************************************************************)
\* What /api/sheet can serve: one sale of June 2025, and later a sheet whose
\* only row has a month that does not parse
CsvA == <<"r","e","p",",","m","o","n","t","h","\n","a",",","2","0","2","5","-","0","6">>
CsvB == <<"r","e","p",",","m","o","n","t","h","\n","b",",","2","0","2","5","-","6","p">>
Snapshots == {CsvA, CsvB}

\* What getOnce can throw: a non-2xx status, or fetch's own rejection
FetchErrors == {"API error (502)", "Failed to fetch"}

\* getOnce's results: { text, h: hash(text) }, or the message of what it threw
FetchResults ==
    {[ok |-> TRUE, text |-> t, h |-> hash(t), message |-> ""] : t \in Snapshots}
    \cup {[ok |-> FALSE, text |-> <<>>, h |-> <<>>, message |-> m] : m \in FetchErrors}

\* Per snapshot, what Papa.parse and normalizeRow make of it
ParsedRows == [t \in Snapshots |-> NormalizeAll(ParseHeader(t))]
ParsedRaw == [t \in Snapshots |-> ParseRaw(t)]

NoSnap == [ok |-> FALSE, text |-> <<>>, h |-> <<>>, message |-> ""]

\* What localStorage "crm_saved_view" can hold at mount
SavedViews == {"none", "autoRefresh off", "other refreshSec"}

InitDash ==
    /\ requestIdRef = 0
    /\ rows = <<>>
    /\ turfRaw = <<>>
    /\ loading = FALSE
    /\ error = ""
    /\ autoRefresh = TRUE
    /\ timerFn = 0
    /\ lastHashRef = <<>>
    /\ cycles = {}
    /\ life = "constructed"

Mounted == life = "mounted"

\* A state setter called after unmount changes nothing
setState(old, new) == IF Mounted THEN new ELSE old

\* loadData is suspended at one of its awaits
Running(c) == c.pc \in {"fetch1", "delay", "fetch2"}

\* The function object a call goes through: fn, or one not called before
\* (fn = 0), whose _lastHashRef is then created as { current: "" }
CalledFn(fn) ==
    IF fn # 0 THEN fn
    ELSE CHOOSE f \in 1..(MaxCycles + 1) :
           /\ f \notin DOMAIN lastHashRef
           /\ \A g \in 1..(f - 1) : g \in DOMAIN lastHashRef

\* The function objects still referenced: by the interval or by an activation
Live(cyc, tf) == {c.fn : c \in {d \in cyc : Running(d)}} \cup ({tf} \ {0})

Collect(refs, cyc, tf) == [f \in Live(cyc, tf) |-> refs[f]]

\* loadData up to its first await: take the next request id, setLoading(true),
\* setError(""), issue the first getOnce
loadDataStart(by, fn, wasAuto, tf) ==
    LET f == CalledFn(fn)
        started == cycles \cup {[myId |-> requestIdRef + 1, fn |-> f, by |-> by,
                                 wasAuto |-> wasAuto, pc |-> "fetch1",
                                 snap1 |-> NoSnap]}
    IN  /\ requestIdRef < MaxCycles
        /\ requestIdRef' = requestIdRef + 1
        /\ loading' = TRUE
        /\ error' = ""
        /\ cycles' = started
        /\ timerFn' = tf
        /\ lastHashRef' = Collect([g \in DOMAIN lastHashRef \cup {f} |->
                                     IF g \in DOMAIN lastHashRef THEN lastHashRef[g]
                                     ELSE <<>>],
                                  started, tf)

\* loadData has returned or thrown. The Refresh button's onClick goes on after
\* its `await loadData()`: its finally block arms
\* setTimeout(() => setAutoRefresh(true), 500) when auto-refresh was on
Returned(c) ==
    IF c.by = "manual" /\ c.wasAuto
    THEN (cycles \ {c}) \cup {[c EXCEPT !.pc = "timeout", !.snap1 = NoSnap]}
    ELSE cycles \ {c}

\* loadData's finally block: `if (myId === requestIdRef.current) setLoading(false)`
Finally(c) == IF c.myId = requestIdRef THEN setState(loading, FALSE) ELSE loading

\* loadData leaves by `return` at a stale guard
Stale(c) ==
    /\ cycles' = Returned(c)
    /\ lastHashRef' = Collect(lastHashRef, Returned(c), timerFn)
    /\ loading' = Finally(c)
    /\ UNCHANGED <<rows, turfRaw, error>>

\* The catch block: setError, setRows([]), setTurfRaw([])
Catch(c, message) ==
    /\ cycles' = Returned(c)
    /\ lastHashRef' = Collect(lastHashRef, Returned(c), timerFn)
    /\ error' = setState(error, message)
    /\ rows' = setState(rows, <<>>)
    /\ turfRaw' = setState(turfRaw, <<>>)
    /\ loading' = Finally(c)

\* An applying step that also reset the error state
Apply_ClearsError(c, chosen) ==
    /\ cycles' = Returned(c)
    /\ rows' = setState(rows, ParsedRows[chosen.text])
    /\ turfRaw' = setState(turfRaw, ParsedRaw[chosen.text])
    /\ lastHashRef' = Collect([lastHashRef EXCEPT ![c.fn] = chosen.h],
                              Returned(c), timerFn)
    /\ loading' = Finally(c)
    /\ error' = setState(error, "")

\* An applying step that replaced the sales records and kept the turf grid
Apply_RowsOnly(c, chosen) ==
    /\ cycles' = Returned(c)
    /\ rows' = setState(rows, ParsedRows[chosen.text])
    /\ lastHashRef' = Collect([lastHashRef EXCEPT ![c.fn] = chosen.h],
                              Returned(c), timerFn)
    /\ loading' = Finally(c)
    /\ UNCHANGED <<turfRaw, error>>

\* Parse the chosen snapshot, setRows, setTurfRaw, commit the accepted hash
Apply(c, chosen) ==
    /\ cycles' = Returned(c)
    /\ rows' = setState(rows, ParsedRows[chosen.text])
    /\ turfRaw' = setState(turfRaw, ParsedRaw[chosen.text])
    /\ lastHashRef' = Collect([lastHashRef EXCEPT ![c.fn] = chosen.h],
                              Returned(c), timerFn)
    /\ loading' = Finally(c)
    /\ UNCHANGED error

\* The first getOnce settles and loadData runs on to its next await or its end
Resume1(c, r) ==
    /\ c.pc = "fetch1"
    /\ IF ~r.ok THEN Catch(c, r.message)
       ELSE IF c.myId # requestIdRef THEN Stale(c)
       ELSE IF r.h # lastHashRef[c.fn]
       THEN /\ cycles' = (cycles \ {c}) \cup {[c EXCEPT !.pc = "delay", !.snap1 = r]}
            /\ UNCHANGED <<rows, turfRaw, error, lastHashRef, loading>>
       ELSE Apply(c, r)
    /\ UNCHANGED <<requestIdRef, autoRefresh, timerFn, life>>
    /\ UNCHANGED <<gateVars, calc>>

\* The 250 ms pause ends and the second getOnce("-v2") is issued
Delay(c) ==
    /\ c.pc = "delay"
    /\ cycles' = (cycles \ {c}) \cup {[c EXCEPT !.pc = "fetch2"]}
    /\ UNCHANGED <<requestIdRef, rows, turfRaw, loading, error, autoRefresh, timerFn,
                   lastHashRef, life>>
    /\ UNCHANGED <<gateVars, calc>>

\* The second getOnce settles
Resume2(c, r) ==
    /\ c.pc = "fetch2"
    /\ IF ~r.ok THEN Catch(c, r.message)
       ELSE IF c.myId # requestIdRef THEN Stale(c)
       ELSE Apply(c, IF r.h = c.snap1.h THEN c.snap1 ELSE r)
    /\ UNCHANGED <<requestIdRef, autoRefresh, timerFn, life>>
    /\ UNCHANGED <<gateVars, calc>>

\* The effects of the first render: loadData(), the interval over this render's
\* loadData, and the saved view, which may switch auto-refresh off or re-create
\* the interval over the next render's loadData
Mount ==
    /\ life = "constructed"
    /\ life' = "mounted"
    /\ \E sv \in SavedViews :
         /\ autoRefresh' = (sv # "autoRefresh off")
         /\ loadDataStart("mount", 0, FALSE, IF sv = "none" THEN CalledFn(0) ELSE 0)
    /\ UNCHANGED <<rows, turfRaw>>
    /\ UNCHANGED <<gateVars, calc>>

\* The interval's tick: `if (document.visibilityState === "visible") loadData()`
TimerTick ==
    /\ Mounted /\ autoRefresh
    /\ \E visibilityState \in {"visible", "hidden"} :
         IF visibilityState = "visible"
         THEN loadDataStart("timer", timerFn, FALSE, CalledFn(timerFn))
         ELSE UNCHANGED <<requestIdRef, loading, error, cycles, timerFn, lastHashRef>>
    /\ UNCHANGED <<rows, turfRaw, autoRefresh, life>>
    /\ UNCHANGED <<gateVars, calc>>

\* The Refresh button (disabled while loading): pause auto-refresh, which
\* clears the interval, and loadData() through the current render's function
ClickRefresh ==
    /\ Mounted /\ ~loading
    /\ loadDataStart("manual", 0, autoRefresh, 0)
    /\ autoRefresh' = FALSE
    /\ UNCHANGED <<rows, turfRaw, life>>
    /\ UNCHANGED <<gateVars, calc>>

\* setTimeout(() => setAutoRefresh(true), 500) fires; if that changes
\* autoRefresh, the effect sets up an interval over the new render's loadData
TimeoutFires(c) ==
    /\ c.pc = "timeout"
    /\ cycles' = cycles \ {c}
    /\ autoRefresh' = setState(autoRefresh, TRUE)
    /\ UNCHANGED <<requestIdRef, rows, turfRaw, loading, error, timerFn, lastHashRef,
                   life>>
    /\ UNCHANGED <<gateVars, calc>>

\* The Auto-refresh checkbox: the interval is cleared, and set up again over
\* the new render's loadData when auto-refresh is now on
ToggleAuto ==
    /\ Mounted
    /\ autoRefresh' = ~autoRefresh
    /\ timerFn' = 0
    /\ lastHashRef' = Collect(lastHashRef, cycles, 0)
    /\ UNCHANGED <<requestIdRef, rows, turfRaw, loading, error, cycles, life>>
    /\ UNCHANGED <<gateVars, calc>>

\* The effects' cleanups: requestIdRef.current++, clearInterval
Unmount ==
    /\ Mounted
    /\ life' = "unmounted"
    /\ requestIdRef' = requestIdRef + 1
    /\ timerFn' = 0
    /\ lastHashRef' = Collect(lastHashRef, cycles, 0)
    /\ UNCHANGED <<rows, turfRaw, loading, error, autoRefresh, cycles>>
    /\ UNCHANGED <<gateVars, calc>>

NextDash ==
    \/ Mount
    \/ TimerTick
    \/ ClickRefresh
    \/ ToggleAuto
    \/ Unmount
    \/ \E c \in cycles, r \in FetchResults : Resume1(c, r)
    \/ \E c \in cycles : Delay(c)
    \/ \E c \in cycles, r \in FetchResults : Resume2(c, r)
    \/ \E c \in cycles : TimeoutFires(c)

(***************************************************************************)
(* Fetch cycles without a bound on how many are started.  loadData only    *)
(* ever compares request ids for equality and only ever draws an id above  *)
(* every id in use, so ids that differ by a shift stand for the same       *)
(* situation: Renumber shifts the ids in use down to start at 1, and the   *)
(* cap on requestIdRef then bounds how many ids are in use at one time,    *)
(* not how many cycles a behaviour starts.                                  *)
(***************************************************************************)
IdsInUse == {c.myId : c \in cycles} \cup {requestIdRef}

Renumber ==
    LET low == CHOOSE i \in IdsInUse : \A j \in IdsInUse : i <= j
    IN  /\ low > 1
        /\ requestIdRef' = requestIdRef - (low - 1)
        /\ cycles' = {[c EXCEPT !.myId = @ - (low - 1)] : c \in cycles}
        /\ UNCHANGED <<rows, turfRaw, loading, error, autoRefresh, timerFn, lastHashRef,
                       life>>
        /\ UNCHANGED <<gateVars, calc>>

\* The activation of loadData that has been suspended the longest
Oldest(c) == Running(c) /\ \A d \in cycles : Running(d) => c.myId <= d.myId

\* The await of the longest-suspended activation settles: its network call
\* completes or fails, or its 250 ms pause ends
Settle ==
    \E c \in cycles :
        /\ Oldest(c)
        /\ \/ \E r \in FetchResults : Resume1(c, r)
           \/ Delay(c)
           \/ \E r \in FetchResults : Resume2(c, r)

NextDashFair ==
    \/ NextDash
    \/ Renumber

(***************************************************************************)
(* The pure functions of app/page.tsx, applied to arguments drawn from     *)
(* bounded sets.  An argument carries, next to the text the function gets, *)
(* what that text means to the person who typed it.                        *)
(***************************************************************************)
NoCalc == [op |-> "none", in |-> <<>>, out |-> <<>>]

InitCalc == calc = NoCalc

NoMeaning == [ok |-> FALSE, y |-> 0, m |-> 0]
Means(y, m) == [ok |-> TRUE, y |-> y, m |-> m]

\* Arguments of normalizeRow: a rep header, a rep cell, a month cell (absent
\* when the sheet has no such column) and a cell of the fallback date column
RowInputs ==
    LET
        \* Rep cells: the text and the name it holds
        RepCells ==
            { [text |-> <<>>, name |-> <<>>],
              [text |-> <<" ", " ">>, name |-> <<>>],
              [text |-> <<"a">>, name |-> <<"a">>],
              [text |-> <<" ", "a", "b", " ">>, name |-> <<"a", "b">>] }

        RepHeaders == { <<"r","e","p">>, <<"S","a","l","e","s"," ","R","e","p"," ","N","a","m","e">>, <<" ","S","a","l","e","s"," "," ","R","e","p"," ","n","a","m","e">> }

        \* Month cells; absent says the sheet has no such column
        MonthCells ==
            { [absent |-> TRUE, text |-> <<>>, means |-> NoMeaning],
              [absent |-> FALSE, text |-> <<>>, means |-> NoMeaning],
              [absent |-> FALSE, text |-> <<"2","0","2","5","-","0","6">>, means |-> Means(2025, 6)],
              [absent |-> FALSE, text |-> <<"0","6","/","2","0","2","5">>, means |-> Means(2025, 6)],
              [absent |-> FALSE, text |-> <<"J","U","N","E"," ","2","0","2","5">>, means |-> Means(2025, 6)],
              [absent |-> FALSE, text |-> <<" ","1","2","-","2","0","2","4"," ">>, means |-> Means(2024, 12)],
              [absent |-> FALSE, text |-> <<"1",".","2","0","2","5"," ">>, means |-> Means(2025, 1)],
              [absent |-> FALSE, text |-> <<"2","0","2","5","-","6","p">>, means |-> NoMeaning],
              [absent |-> FALSE, text |-> <<"J","u","n","e">>, means |-> NoMeaning] }

        \* Cells of the fallback date column
        DateCells ==
            { [absent |-> TRUE, text |-> <<>>, means |-> NoMeaning],
              [absent |-> FALSE, text |-> <<>>, means |-> NoMeaning],
              [absent |-> FALSE, text |-> <<"1","5","/","0","6","/","2","0","2","5">>, means |-> Means(2025, 6)],
              [absent |-> FALSE, text |-> <<"1","-","1","2","-","2","0","2","4">>, means |-> Means(2024, 12)],
              [absent |-> FALSE, text |-> <<"2","0","2","5","-","0","3","-","3","1">>, means |-> Means(2025, 3)],
              [absent |-> FALSE, text |-> <<"n","e","x","t"," ","w","e","e","k">>, means |-> NoMeaning] }

        \* The object Papa.parse makes of a data row under these headers
        RowObject(h, rc, mc, dc) ==
            << <<h, rc.text>> >>
            \o (IF mc.absent THEN <<>> ELSE << <<<<"M","o","n","t","h">>, mc.text>> >>)
            \o (IF dc.absent THEN <<>> ELSE << <<<<"D","a","t","e">>, dc.text>> >>)
    IN  { [row |-> RowObject(h, rc, mc, dc), name |-> rc.name,
           means |-> IF mc.means.ok THEN mc.means ELSE dc.means] :
            h \in RepHeaders, rc \in RepCells, mc \in MonthCells, dc \in DateCells }

(***************************************************************************)
(* Calendar arithmetic behind Date: local civil dates, no time of day      *)
(***************************************************************************)
\* Days from 1 January 1970 to the civil date
DayNumber(dt) ==
    LET y == IF dt.m <= 2 THEN dt.y - 1 ELSE dt.y
        era == y \div 400
        yoe == y - (era * 400)
        mp == IF dt.m > 2 THEN dt.m - 3 ELSE dt.m + 9
        doy == (((153 * mp) + 2) \div 5) + (dt.d - 1)
        doe == (yoe * 365) + (yoe \div 4) - (yoe \div 100) + doy
    IN  (era * 146097) + doe - 719468

\* Date.getDay(): 0 Sunday ... 6 Saturday
getDay(dt) == (DayNumber(dt) + 4) % 7

mondayOfWeek(dt) ==
    LET diff == (getDay(dt) + 6) % 7
    IN  NormDay(dt.y, dt.m, dt.d - diff)

\* String(n).padStart(2, "0") and String(year)
RECURSIVE ToDigits(_)
ToDigits(n) ==
    IF n < 10 THEN <<DigitChars[n + 1]>>
    ELSE ToDigits(n \div 10) \o <<DigitChars[(n % 10) + 1]>>

padStart2(n) == IF n < 10 THEN <<"0">> \o ToDigits(n) ELSE ToDigits(n)

\* weekKey: YYYY-MM-DD of the week's Monday
weekKey(dt) ==
    LET m == mondayOfWeek(dt)
    IN  ToDigits(m.y) \o <<"-">> \o padStart2(m.m) \o <<"-">> \o padStart2(m.d)

\* ym: YYYY-MM
ym(dt) == ToDigits(dt.y) \o <<"-">> \o padStart2(dt.m)

\* parseInt(s, 10) of a text over digits and "-"; NaN is ok = FALSE
parseInt(c) ==
    LET neg == c # <<>> /\ Head(c) = "-"
        body == IF neg THEN Tail(c) ELSE c
        n == RunLen(body, IsDigit)
    IN  IF n = 0 THEN [ok |-> FALSE, num |-> 0]
        ELSE [ok |-> TRUE,
              num |-> IF neg THEN 0 - ToNumber(Take(body, n)) ELSE ToNumber(Take(body, n))]

(***************************************************************************)
(* Turf entries: the rows of the raw grid read by position, columns M to P *)
(***************************************************************************)
ScanRows == 10      \* rows searched for the first date-like N cell
P_IDX == 15

\* A turf extraction that begins at the second row whatever the grid holds
StartRow_Second(grid) == 1

\* The first of the leading rows with a date-like N cell, else 1 (0-based)
StartRow(grid) ==
    LET Sep(ch) == ch \in {"/", "-"}
        At(t, i) == IF i <= Len(t) THEN t[i] ELSE ""
        \* /\d{1,2}[\/\-]\d{1,2}[\/\-]\d{2,4}/ found anywhere in t
        dateLike(t) ==
            \E i \in DOMAIN t :
                /\ IsDigit(t[i]) /\ Sep(At(t, i + 1)) /\ IsDigit(At(t, i + 2))
                /\ \/ Sep(At(t, i + 3)) /\ IsDigit(At(t, i + 4)) /\ IsDigit(At(t, i + 5))
                   \/ /\ IsDigit(At(t, i + 3)) /\ Sep(At(t, i + 4))
                      /\ IsDigit(At(t, i + 5)) /\ IsDigit(At(t, i + 6))
        first == {i \in 1..Len(grid) :
                    /\ i <= ScanRows
                    /\ Len(grid[i]) > P_IDX /\ dateLike(grid[i][P_IDX - 1])}
    IN  IF first = {} THEN 1
        ELSE (CHOOSE i \in first : \A j \in first : i <= j) - 1

\* The entry a row gives, in a tuple; the empty tuple when the row is skipped
TurfEntryOf(row) ==
    IF Len(row) <= P_IDX THEN <<>>
    ELSE
      LET repM == TrimStr(row[P_IDX - 2])
          dateN == TrimStr(row[P_IDX - 1])
          turfO == TrimStr(row[P_IDX])
          salesP == TrimStr(row[P_IDX + 1])
          d == parseDDMMYYYY(dateN)
          mon == mondayOfWeek(d)
          num == parseInt(Filter(salesP, LAMBDA ch : IsDigit(ch) \/ ch = "-"))
      IN  IF repM = <<>> \/ dateN = <<>> \/ turfO = <<>> \/ salesP = <<>> THEN <<>>
          ELSE IF ~d.ok THEN <<>>
          ELSE << [rep |-> repM, turf |-> turfO, week |-> weekKey(mon),
                   date |-> [y |-> mon.y, m |-> mon.m, d |-> mon.d],
                   count |-> IF num.ok THEN num.num ELSE 0,
                   month |-> ym(mon)] >>

RECURSIVE EntriesFrom(_, _)
EntriesFrom(grid, i) ==
    IF i > Len(grid) THEN <<>>
    ELSE TurfEntryOf(grid[i]) \o EntriesFrom(grid, i + 1)

turfEntries(grid) ==
    IF grid = <<>> THEN <<>> ELSE EntriesFrom(grid, StartRow(grid) + 1)

\* Grids: leading header rows, then data rows.  A data row carries the
\* entry a reader of the sheet expects of it (none when a cell is missing or
\* the date is no DD/MM/YYYY date).
MaxDataRows == 2

GridInputs ==
    LET Blank == [k \in 1..(P_IDX - 3) |-> <<>>]
        Cells(m, n, o, p) == Blank \o <<m, n, o, p>>
        Short(m, n, o) == Blank \o <<m, n, o>>
        None == [ok |-> FALSE, rep |-> <<>>, turf |-> <<>>]
        Entry(r, t) == [ok |-> TRUE, rep |-> r, turf |-> t]
        Header == Cells(<<"R","e","p">>, <<"D","a","t","e">>, <<"T","u","r","f">>, <<"S","a","l","e","s">>)
        Kinds ==
            { [row |-> Cells(<<"b","o","b">>, <<"1","5","/","0","6","/","2","0","2","5">>, <<"N","o","r","t","h">>, <<"3">>), entry |-> Entry(<<"b","o","b">>, <<"N","o","r","t","h">>)],
              [row |-> Cells(<<" ","a","l"," ">>, <<" ","1","-","7","-","2","0","2","5">>, <<"E","a","s","t"," ">>, <<"x">>), entry |-> Entry(<<"a","l">>, <<"E","a","s","t">>)],
              [row |-> Cells(<<" "," ">>, <<"1","5","/","0","6","/","2","0","2","5">>, <<"N","o","r","t","h">>, <<"3">>), entry |-> None],
              [row |-> Cells(<<"b","o","b">>, <<>>, <<"N","o","r","t","h">>, <<"3">>), entry |-> None],
              [row |-> Cells(<<"b","o","b">>, <<"J","u","n","e"," ","2","0","2","5">>, <<"N","o","r","t","h">>, <<"3">>), entry |-> None],
              [row |-> Cells(<<"b","o","b">>, <<"1","/","2","/","2","5">>, <<"N","o","r","t","h">>, <<"3">>), entry |-> None],
              [row |-> Cells(<<"b","o","b">>, <<"1","5","/","0","6","/","2","0","2","5">>, <<" ">>, <<"3">>), entry |-> None],
              [row |-> Cells(<<"b","o","b">>, <<"1","5","/","0","6","/","2","0","2","5">>, <<"N","o","r","t","h">>, <<>>), entry |-> None],
              [row |-> Short(<<"b","o","b">>, <<"1","5","/","0","6","/","2","0","2","5">>, <<"N","o","r","t","h">>), entry |-> None] }
        Data == UNION {[1..k -> Kinds] : k \in 0..MaxDataRows}
        Lead == {0, 1, 2, ScanRows - 1, ScanRows, ScanRows + 1}
    IN  { [grid |-> [k \in 1..n |-> Header] \o [k \in DOMAIN dt |-> dt[k].row],
           expect |-> [k \in DOMAIN dt |-> dt[k].entry]] :
            n \in Lead, dt \in Data }

CallTurfEntries ==
    /\ calc = NoCalc
    /\ \E a \in GridInputs :
         calc' = [op |-> "turfEntries", in |-> a, out |-> turfEntries(a.grid)]
    /\ UNCHANGED <<gateVars, dashVars>>

(***************************************************************************)
(* Aggregations over the sales records.  Amounts are decimals [num, scale] *)
(* added exactly; a quotient is the fraction [n, d] with d > 0.            *)
(***************************************************************************)
DecAdd(a, b) ==
    LET s == IF a.scale >= b.scale THEN a.scale ELSE b.scale
    IN  [num |-> (a.num * Pow10(s - a.scale)) + (b.num * Pow10(s - b.scale)),
         scale |-> s]

\* a / b as a fraction, for b # 0
DecDiv(a, b) ==
    LET s == IF a.scale >= b.scale THEN a.scale ELSE b.scale
        n == a.num * Pow10(s - a.scale)
        d == b.num * Pow10(s - b.scale)
    IN  IF d > 0 THEN [n |-> n, d |-> d] ELSE [n |-> 0 - n, d |-> 0 - d]

DateLE(a, b) == DayNumber(a) <= DayNumber(b)

\* A time context whose year-to-date window ends with the month before the
\* context month
TimeContext_YtdToPreviousMonth(live, selectedMonth, memoDay, renderDay) ==
    LET parts == Split(selectedMonth, "-")
        contextDate == IF live THEN memoDay
                       ELSE MakeDate(ToNumber(parts[1]), ToNumber(parts[2]) - 1, 1)
    IN  [live |-> live,
         contextDate |-> contextDate,
         thisMonthKey |-> ym(contextDate),
         ytdStart |-> MakeDate(contextDate.y, 0, 1),
         ytdEnd |-> MakeDate(contextDate.y, contextDate.m - 1, 0),
         prevMonthKey |-> ym(MakeDate(contextDate.y, contextDate.m - 2, 1))]

\* The time context of a render.  contextDate is memoized on [live,
\* selectedMonth]: in live mode it is the clock of the render that computed
\* it (memoDay); ytdEnd reads the clock in every render (renderDay).
TimeContext(live, selectedMonth, memoDay, renderDay) ==
    LET parts == Split(selectedMonth, "-")
        contextDate == IF live THEN memoDay
                       ELSE MakeDate(ToNumber(parts[1]), ToNumber(parts[2]) - 1, 1)
    IN  [live |-> live,
         contextDate |-> contextDate,
         thisMonthKey |-> ym(contextDate),
         ytdStart |-> MakeDate(contextDate.y, 0, 1),
         ytdEnd |-> IF live THEN renderDay
                    ELSE MakeDate(contextDate.y, contextDate.m, 0),
         prevMonthKey |-> ym(MakeDate(contextDate.y, contextDate.m - 2, 1))]

NoPct == [null |-> TRUE, n |-> 0, d |-> 1]

\* A delta that shows "new" whenever the previous month has no revenue
companyDelta_NewOnZero(mSalesAmt, prevMonthSalesAmt) ==
    IF prevMonthSalesAmt.num > 0
    THEN LET q == DecDiv(DecAdd(mSalesAmt, [prevMonthSalesAmt EXCEPT !.num = 0 - @]),
                         prevMonthSalesAmt)
         IN  [deltaPct |-> [null |-> FALSE, n |-> q.n * 100, d |-> q.d],
              deltaIsNew |-> FALSE]
    ELSE [deltaPct |-> NoPct, deltaIsNew |-> prevMonthSalesAmt.num = 0]

companyDelta(mSalesAmt, prevMonthSalesAmt) ==
    IF prevMonthSalesAmt.num > 0
    THEN LET q == DecDiv(DecAdd(mSalesAmt, [prevMonthSalesAmt EXCEPT !.num = 0 - @]),
                         prevMonthSalesAmt)
         IN  [deltaPct |-> [null |-> FALSE, n |-> q.n * 100, d |-> q.d],
              deltaIsNew |-> FALSE]
    ELSE IF prevMonthSalesAmt.num = 0 /\ mSalesAmt.num > 0
    THEN [deltaPct |-> NoPct, deltaIsNew |-> TRUE]
    ELSE [deltaPct |-> NoPct, deltaIsNew |-> FALSE]

\* The sums of `company` over the first k records
RECURSIVE companySums(_, _, _)
companySums(rs, k, tc) ==
    IF k = 0
    THEN [mSalesAmt |-> Zero, ySalesAmt |-> Zero, mProfit |-> Zero, yProfit |-> Zero,
          mSalesCount |-> 0, ySalesCount |-> 0, prevMonthSalesAmt |-> Zero,
          monthlyByRep |-> <<>>]
    ELSE
      LET acc == companySums(rs, k - 1, tc)
          r == rs[k]
          key == ym(r.date)
          inMonth == key = tc.thisMonthKey
          inPrev == key = tc.prevMonthKey
          inYtd == DateLE(tc.ytdStart, r.date) /\ DateLE(r.date, tc.ytdEnd)
          seen == {i \in DOMAIN acc.monthlyByRep : acc.monthlyByRep[i][1] = r.rep}
      IN  [mSalesAmt |-> IF inMonth THEN DecAdd(acc.mSalesAmt, r.amount) ELSE acc.mSalesAmt,
           mProfit |-> IF inMonth THEN DecAdd(acc.mProfit, r.profit) ELSE acc.mProfit,
           mSalesCount |-> IF inMonth THEN acc.mSalesCount + 1 ELSE acc.mSalesCount,
           monthlyByRep |->
               IF ~inMonth THEN acc.monthlyByRep
               ELSE IF seen = {} THEN Append(acc.monthlyByRep, <<r.rep, 1>>)
               ELSE [i \in DOMAIN acc.monthlyByRep |->
                        IF i \in seen THEN <<r.rep, acc.monthlyByRep[i][2] + 1>>
                        ELSE acc.monthlyByRep[i]],
           prevMonthSalesAmt |-> IF inPrev THEN DecAdd(acc.prevMonthSalesAmt, r.amount)
                                 ELSE acc.prevMonthSalesAmt,
           ySalesAmt |-> IF inYtd THEN DecAdd(acc.ySalesAmt, r.amount) ELSE acc.ySalesAmt,
           yProfit |-> IF inYtd THEN DecAdd(acc.yProfit, r.profit) ELSE acc.yProfit,
           ySalesCount |-> IF inYtd THEN acc.ySalesCount + 1 ELSE acc.ySalesCount]

\* company: the sums, the delta against the previous month, and the rep
\* with the most sales of the month (the first such in Map order)
company(rs, tc) ==
    LET sums == companySums(rs, Len(rs), tc)
        delta == companyDelta(sums.mSalesAmt, sums.prevMonthSalesAmt)
        by == sums.monthlyByRep
        top == CHOOSE i \in DOMAIN by :
                 \A j \in DOMAIN by : by[j][2] < by[i][2] \/ (by[j][2] = by[i][2] /\ i <= j)
    IN  [mSalesAmt |-> sums.mSalesAmt, ySalesAmt |-> sums.ySalesAmt,
         mProfit |-> sums.mProfit, yProfit |-> sums.yProfit,
         mSalesCount |-> sums.mSalesCount, ySalesCount |-> sums.ySalesCount,
         topRep |-> IF by = <<>> THEN <<>> ELSE by[top][1],
         topRepSales |-> IF by = <<>> THEN 0 ELSE by[top][2],
         prevMonthSalesAmt |-> sums.prevMonthSalesAmt,
         deltaPct |-> delta.deltaPct, deltaIsNew |-> delta.deltaIsNew]

\* Math.round of a fraction
Round(q) == ((2 * q.n) + q.d) \div (2 * q.d)

\* The badge text; the empty tuple is null
formatDeltaBadge(deltaPct, isNew) ==
    IF isNew THEN <<"N", "E", "W">>
    ELSE IF deltaPct.null THEN <<>>
    ELSE LET rounded == Round(deltaPct)
         IN  (IF rounded > 0 THEN <<"+">> ELSE <<>>)
             \o (IF rounded < 0 THEN <<"-">> \o ToDigits(0 - rounded) ELSE ToDigits(rounded))
             \o <<"%">>

\* A sales record as normalizeRow returns it
Sale(rep, product, y, m, amount, profit) ==
    [rep |-> rep, product |-> product, date |-> [y |-> y, m |-> m, d |-> 1],
     amount |-> [num |-> amount, scale |-> 0], profit |-> [num |-> profit, scale |-> 0],
     commission |-> Zero]

MaxRecords == 2

\* Record lists of one rep whose records lie in the context month, the month
\* before or the month before that, with the context they are viewed in
CompanyInputs ==
    LET Views == { [live |-> FALSE, sel |-> <<"2","0","2","5","-","0","6">>, day |-> [y |-> 2025, m |-> 8, d |-> 20]],
                   [live |-> FALSE, sel |-> <<"2","0","2","5","-","0","1">>, day |-> [y |-> 2025, m |-> 8, d |-> 20]],
                   [live |-> TRUE, sel |-> <<"2","0","2","5","-","0","3">>, day |-> [y |-> 2025, m |-> 6, d |-> 15]] }
        Kinds == [back : 0..2, amount : {0, 100, 120, 0 - 100}]
        Lists == UNION {[1..k -> Kinds] : k \in 0..MaxRecords}
        Month(v, back) ==
            LET c == IF v.live THEN v.day ELSE [y |-> ToNumber(Take(v.sel, 4)),
                                                 m |-> ToNumber(Drop(v.sel, 5)), d |-> 1]
            IN  NormMonth(c.y, c.m - 1 - back)
        Sum(l, back) ==
            LET RECURSIVE S(_)
                S(k) == IF k = 0 THEN 0
                        ELSE S(k - 1) + (IF l[k].back = back THEN l[k].amount ELSE 0)
            IN  S(Len(l))
    IN  { [rows |-> [k \in DOMAIN l |->
                       Sale(<<"a">>, <<"p">>, Month(v, l[k].back).y, Month(v, l[k].back).m,
                            l[k].amount, 0)],
           tc |-> TimeContext(v.live, v.sel, v.day, v.day),
           current |-> Sum(l, 0), previous |-> Sum(l, 1)] :
            v \in Views, l \in Lists }

CallCompany ==
    /\ calc = NoCalc
    /\ \E a \in CompanyInputs :
         LET c == company(a.rows, a.tc)
         IN  calc' = [op |-> "company", in |-> a,
                      out |-> [company |-> c,
                               badge |-> formatDeltaBadge(c.deltaPct, c.deltaIsNew)]]
    /\ UNCHANGED <<gateVars, dashVars>>

\* A historical window that keeps the context month in live mode too
inHistWindow_KeepsLiveMonth(r, tc) ==
    /\ DateLE(tc.ytdStart, r.date)
    /\ DateLE(r.date, MakeDate(tc.contextDate.y, tc.contextDate.m, 0))

\* productRows: inHistWindow && !excludeSelected
inHistWindow(r, tc) ==
    /\ DateLE(tc.ytdStart, r.date)
    /\ DateLE(r.date, MakeDate(tc.contextDate.y, tc.contextDate.m, 0))
    /\ ~(tc.live /\ ym(r.date) = tc.thisMonthKey)

\* productRows: one row per product name, in the order the names enter the
\* month, year-to-date and historical maps
productRows(rs, tc) ==
    LET name(r) == IF r.product = <<>> THEN Unspecified ELSE r.product
        In(p, r) ==
            CASE p = 1 -> ym(r.date) = tc.thisMonthKey
              [] p = 2 -> DateLE(tc.ytdStart, r.date) /\ DateLE(r.date, tc.ytdEnd)
              [] OTHER -> inHistWindow(r, tc)
        RECURSIVE Keys(_, _)
        Keys(p, k) ==
            IF k = 0 THEN <<>>
            ELSE LET before == Keys(p, k - 1)
                 IN  IF In(p, rs[k]) /\ name(rs[k]) \notin Range(before)
                     THEN Append(before, name(rs[k])) ELSE before
        all == Keys(1, Len(rs)) \o Keys(2, Len(rs)) \o Keys(3, Len(rs))
        firsts == {i \in DOMAIN all : \A j \in 1..(i - 1) : all[j] # all[i]}
        RECURSIVE Names(_)
        Names(i) == IF i = 0 THEN <<>>
                    ELSE IF i \in firsts THEN Append(Names(i - 1), all[i])
                    ELSE Names(i - 1)
        Count(p, n) == Cardinality({k \in DOMAIN rs : In(p, rs[k]) /\ name(rs[k]) = n})
        RECURSIVE Hist(_, _)
        Hist(n, k) ==
            IF k = 0 THEN [rev |-> Zero, prof |-> Zero]
            ELSE LET h == Hist(n, k - 1)
                 IN  IF In(3, rs[k]) /\ name(rs[k]) = n
                     THEN [rev |-> DecAdd(h.rev, rs[k].amount),
                           prof |-> DecAdd(h.prof, rs[k].profit)]
                     ELSE h
        Row(n) ==
            LET h == Hist(n, Len(rs))
            IN  [product |-> n, mCount |-> Count(1, n), yCount |-> Count(2, n),
                 totalProfitAll |-> h.prof,
                 marginPctAll |-> IF h.rev.num > 0
                                  THEN DecDiv([h.prof EXCEPT !.num = 100 * @], h.rev)
                                  ELSE [n |-> 0, d |-> 1]]
        names == Names(Len(all))
    IN  [i \in DOMAIN names |-> Row(names[i])]

\* The views the aggregations are computed in: a selected month, live, and
\* live with a context date memoized on 30 June and a render on that day or
\* on the day after
Views ==
    { [live |-> FALSE, sel |-> <<"2","0","2","5","-","0","6">>, memoDay |-> [y |-> 2025, m |-> 8, d |-> 20],
       renderDay |-> [y |-> 2025, m |-> 8, d |-> 20]],
      [live |-> FALSE, sel |-> <<"2","0","2","5","-","0","1">>, memoDay |-> [y |-> 2025, m |-> 8, d |-> 20],
       renderDay |-> [y |-> 2025, m |-> 8, d |-> 20]],
      [live |-> TRUE, sel |-> <<"2","0","2","5","-","0","3">>, memoDay |-> [y |-> 2025, m |-> 6, d |-> 15],
       renderDay |-> [y |-> 2025, m |-> 6, d |-> 15]],
      [live |-> TRUE, sel |-> <<"2","0","2","5","-","0","3">>, memoDay |-> [y |-> 2025, m |-> 6, d |-> 30],
       renderDay |-> [y |-> 2025, m |-> 6, d |-> 30]],
      [live |-> TRUE, sel |-> <<"2","0","2","5","-","0","3">>, memoDay |-> [y |-> 2025, m |-> 6, d |-> 30],
       renderDay |-> [y |-> 2025, m |-> 7, d |-> 1]] }

\* Record lists of one product dated the month after the context month, the
\* context month, the month before and six months before; each record
\* carries its month as the year and the month number
ProductInputs ==
    LET Kinds == [back : {0 - 1, 0, 1, 6}, money : {<<100, 40>>, <<50, 10>>}]
        Lists == UNION {[1..k -> Kinds] : k \in 0..MaxRecords}
        Ctx(v) == TimeContext(v.live, v.sel, v.memoDay, v.renderDay)
        Month(v, back) == NormMonth(Ctx(v).contextDate.y, Ctx(v).contextDate.m - 1 - back)
    IN  { [rows |-> [k \in DOMAIN l |->
                       Sale(<<"a">>, <<"p">>, Month(v, l[k].back).y, Month(v, l[k].back).m,
                            l[k].money[1], l[k].money[2])],
           tc |-> Ctx(v),
           year |-> Ctx(v).contextDate.y, month |-> Ctx(v).contextDate.m] :
            v \in Views, l \in Lists }

CallProductRows ==
    /\ calc = NoCalc
    /\ \E a \in ProductInputs :
         calc' = [op |-> "productRows", in |-> a, out |-> productRows(a.rows, a.tc)]
    /\ UNCHANGED <<gateVars, dashVars>>

\* The sign of a - b for two quotients and for two decimals
FracCmp(a, b) == (a.n * b.d) - (b.n * a.d)
DecCmp(a, b) == DecAdd(a, [b EXCEPT !.num = 0 - @]).num

\* String.prototype.localeCompare for names of lower-case letters and digits,
\* where the collation order is the alphabetical one: negative, 0 or positive
RECURSIVE localeCompare(_, _)
localeCompare(a, b) ==
    IF a = <<>> THEN (IF b = <<>> THEN 0 ELSE 0 - 1)
    ELSE IF b = <<>> THEN 1
    ELSE IF Head(a) # Head(b) THEN CharCode(Head(a)) - CharCode(Head(b))
    ELSE localeCompare(Tail(a), Tail(b))

\* The comparators handed to Array.prototype.sort; 0 falls through ||
compare(table, a, b) ==
    CASE table = "repRows" ->
           IF DecCmp(b.yProfit, a.yProfit) # 0 THEN DecCmp(b.yProfit, a.yProfit)
           ELSE localeCompare(a.rep, b.rep)
      [] table = "avgRows" ->
           IF FracCmp(b.mAvg, a.mAvg) # 0 THEN FracCmp(b.mAvg, a.mAvg)
           ELSE IF FracCmp(b.yAvg, a.yAvg) # 0 THEN FracCmp(b.yAvg, a.yAvg)
           ELSE localeCompare(a.rep, b.rep)
      [] table = "productTable" -> DecCmp(b.totalProfitAll, a.totalProfitAll)
      [] table = "perf" ->
           IF FracCmp(b.avgPerWeekYTD, a.avgPerWeekYTD) # 0
           THEN FracCmp(b.avgPerWeekYTD, a.avgPerWeekYTD)
           ELSE localeCompare(a.turf, b.turf)
      [] table = "results" -> localeCompare(a.rep, b.rep)
      [] table = "share" ->
           IF FracCmp(b.pct, a.pct) # 0 THEN FracCmp(b.pct, a.pct)
           ELSE localeCompare(a.turf, b.turf)
      [] table = "repsOrdered" ->
           IF b.repTotal - a.repTotal # 0 THEN b.repTotal - a.repTotal
           ELSE localeCompare(a.rep, b.rep)
      [] table = "names" -> localeCompare(a, b)

\* Array.prototype.sort, which is stable: each element is placed after the
\* elements before it that do not compare greater.  The list and the sorted
\* front are bound once each.
RECURSIVE sort(_, _)
sort(table, list) ==
    IF list = <<>> THEN <<>>
    ELSE CHOOSE out \in
           { LET x == l[Len(l)]
                 p == Cardinality({j \in DOMAIN s : compare(table, s[j], x) <= 0})
             IN  SubSeq(s, 1, p) \o <<x>> \o SubSeq(s, p + 1, Len(s)) :
               l \in {list}, s \in {sort(table, SubSeq(list, 1, Len(list) - 1))} } : TRUE

\* avgRows: per rep, the profit per sale over the records outside the
\* context month (mAvg) and over those of them in the year-to-date window
avgRows(rs, tc) ==
    LET RECURSIVE Reps(_)
        Reps(k) == IF k = 0 THEN <<>>
                   ELSE IF rs[k].rep \in Range(Reps(k - 1)) THEN Reps(k - 1)
                   ELSE Append(Reps(k - 1), rs[k].rep)
        RECURSIVE Agg(_, _)
        Agg(rep, k) ==
            IF k = 0 THEN [histAllSales |-> 0, histAllProfit |-> Zero,
                           histYtdSales |-> 0, histYtdProfit |-> Zero]
            ELSE LET agg == Agg(rep, k - 1)
                     r == rs[k]
                     inCurrentMonth == ym(r.date) = tc.thisMonthKey
                     inYtd == DateLE(tc.ytdStart, r.date) /\ DateLE(r.date, tc.ytdEnd)
                 IN  IF r.rep # rep \/ inCurrentMonth THEN agg
                     ELSE [histAllSales |-> agg.histAllSales + 1,
                           histAllProfit |-> DecAdd(agg.histAllProfit, r.profit),
                           histYtdSales |-> agg.histYtdSales + (IF inYtd THEN 1 ELSE 0),
                           histYtdProfit |-> IF inYtd THEN DecAdd(agg.histYtdProfit, r.profit)
                                             ELSE agg.histYtdProfit]
        Avg(profit, sales) == IF sales > 0
                              THEN DecDiv(profit, [num |-> sales, scale |-> 0])
                              ELSE [n |-> 0, d |-> 1]
        reps == Reps(Len(rs))
        list == [i \in DOMAIN reps |->
                   LET agg == Agg(reps[i], Len(rs))
                   IN  [rep |-> reps[i],
                        mAvg |-> Avg(agg.histAllProfit, agg.histAllSales),
                        yAvg |-> Avg(agg.histYtdProfit, agg.histYtdSales)]]
    IN  sort("avgRows", list)

\* Record lists of two reps dated the month after the context month, the
\* context month and the month before, in a selected June and the live views
AvgInputs ==
    LET Kinds == [rep : {<<"a">>, <<"b">>}, back : {0 - 1, 0, 1}, profit : {40, 10}]
        Lists == UNION {[1..k -> Kinds] : k \in 0..MaxRecords}
        Ctx(v) == TimeContext(v.live, v.sel, v.memoDay, v.renderDay)
        Month(v, back) == NormMonth(Ctx(v).contextDate.y, Ctx(v).contextDate.m - 1 - back)
    IN  { [rows |-> [k \in DOMAIN l |->
                       Sale(l[k].rep, <<"p">>, Month(v, l[k].back).y, Month(v, l[k].back).m,
                            100, l[k].profit)],
           tc |-> Ctx(v),
           year |-> Ctx(v).contextDate.y, month |-> Ctx(v).contextDate.m] :
            v \in {w \in Views : w.sel[7] # "1"},
            l \in Lists }

CallAvgRows ==
    /\ calc = NoCalc
    /\ \E a \in AvgInputs :
         calc' = [op |-> "avgRows", in |-> a, out |-> avgRows(a.rows, a.tc)]
    /\ UNCHANGED <<gateVars, dashVars>>

\* repRows: per rep, in the order the reps enter the map, the monthly and
\* year-to-date sums and the sale count against the previous month; sorted
repRows(rs, tc) ==
    LET RECURSIVE Reps(_)
        Reps(k) == IF k = 0 THEN <<>>
                   ELSE IF rs[k].rep \in Range(Reps(k - 1)) THEN Reps(k - 1)
                   ELSE Append(Reps(k - 1), rs[k].rep)
        RECURSIVE Sums(_, _)
        Sums(rep, k) ==
            IF k = 0
            THEN [rep |-> rep, mSales |-> 0, ySales |-> 0, mProfit |-> Zero,
                  yProfit |-> Zero, mRevenue |-> Zero, yRevenue |-> Zero,
                  mComm |-> Zero, yComm |-> Zero, diff |-> 0]
            ELSE
              LET acc == Sums(rep, k - 1)
                  r == rs[k]
                  key == ym(r.date)
                  inMonth == key = tc.thisMonthKey
                  inYtd == DateLE(tc.ytdStart, r.date) /\ DateLE(r.date, tc.ytdEnd)
                  Add(sum, x, cond) == IF cond THEN DecAdd(sum, x) ELSE sum
              IN  IF r.rep # rep THEN acc
                  ELSE [rep |-> rep,
                        mSales |-> acc.mSales + (IF inMonth THEN 1 ELSE 0),
                        ySales |-> acc.ySales + (IF inYtd THEN 1 ELSE 0),
                        mProfit |-> Add(acc.mProfit, r.profit, inMonth),
                        yProfit |-> Add(acc.yProfit, r.profit, inYtd),
                        mRevenue |-> Add(acc.mRevenue, r.amount, inMonth),
                        yRevenue |-> Add(acc.yRevenue, r.amount, inYtd),
                        mComm |-> Add(acc.mComm, r.commission, inMonth),
                        yComm |-> Add(acc.yComm, r.commission, inYtd),
                        diff |-> acc.diff + (IF inMonth THEN 1 ELSE 0)
                                   - (IF key = tc.prevMonthKey /\ ~inMonth THEN 1 ELSE 0)]
        reps == Reps(Len(rs))
    IN  sort("repRows", [i \in DOMAIN reps |-> Sums(reps[i], Len(rs))])

CallRepRows ==
    /\ calc = NoCalc
    /\ \E a \in AvgInputs :
         calc' = [op |-> "repRows", in |-> a, out |-> repRows(a.rows, a.tc)]
    /\ UNCHANGED <<gateVars, dashVars>>

\* The product table's rows as rendered: a copy of productRows, sorted
productTable(rs, tc) == sort("productTable", productRows(rs, tc))

\* Record lists of two products dated in the context month or the month
\* before, in a selected June and live
TableInputs ==
    LET Kinds == [product : {<<"p">>, <<"q">>}, back : {0, 1}, profit : {40, 10}]
        Lists == UNION {[1..k -> Kinds] : k \in 0..MaxRecords}
        Ctx(v) == TimeContext(v.live, v.sel, v.memoDay, v.renderDay)
        Month(v, back) == NormMonth(Ctx(v).contextDate.y, Ctx(v).contextDate.m - 1 - back)
    IN  { [rows |-> [k \in DOMAIN l |->
                       Sale(<<"a">>, l[k].product, Month(v, l[k].back).y,
                            Month(v, l[k].back).m, 100, l[k].profit)],
           tc |-> Ctx(v)] :
            v \in {w \in Views : w.memoDay = w.renderDay /\ w.sel[7] # "1"},
            l \in Lists }

RenderProductTable ==
    /\ calc = NoCalc
    /\ \E a \in TableInputs :
         calc' = [op |-> "productTable", in |-> a, out |-> productTable(a.rows, a.tc)]
    /\ UNCHANGED <<gateVars, dashVars>>

(***************************************************************************)
(* Turf suggestions, computed from the turf entries and the clock's day    *)
(***************************************************************************)
NoSuggestion == <<"N","O"," ","S","U","G","G","E","S","T","I","O","N">>

\* allRepsFromM: the distinct reps of the entries, sorted
allRepsFromM(entries) ==
    LET RECURSIVE Reps(_)
        Reps(k) == IF k = 0 THEN <<>>
                   ELSE IF entries[k].rep \in Range(Reps(k - 1)) THEN Reps(k - 1)
                   ELSE Append(Reps(k - 1), entries[k].rep)
    IN  sort("names", Reps(Len(entries)))

turfSuggestions(entries, today) ==
    LET ytdStartNow == MakeDate(today.y, 0, 1)
        threeWeeksAgoMon == mondayOfWeek(MakeDate(today.y, today.m - 1, today.d - 21))
        nextWeekMonday == mondayOfWeek(MakeDate(today.y, today.m - 1, today.d + 7))
        nextRefreshMonday == mondayOfWeek(MakeDate(today.y, today.m - 1, today.d + 14))
        RECURSIVE Keys(_, _)
        \* the keys of a rep's map, in insertion order
        Keys(rep, k) ==
            IF k = 0 THEN <<>>
            ELSE IF entries[k].rep # rep \/ entries[k].turf \in Range(Keys(rep, k - 1))
            THEN Keys(rep, k - 1)
            ELSE Append(Keys(rep, k - 1), entries[k].turf)
        RECURSIVE Agg(_, _, _)
        Agg(rep, turf, k) ==
            IF k = 0 THEN [ytdSales |-> 0, ytdWeeks |-> {}, last |-> NoDate]
            ELSE LET agg == Agg(rep, turf, k - 1)
                     e == entries[k]
                     inYtd == DateLE(ytdStartNow, e.date) /\ DateLE(e.date, today)
                 IN  IF e.rep # rep \/ e.turf # turf THEN agg
                     ELSE [ytdSales |-> agg.ytdSales + (IF inYtd THEN e.count ELSE 0),
                           ytdWeeks |-> agg.ytdWeeks \cup (IF inYtd THEN {e.week} ELSE {}),
                           last |-> IF ~agg.last.ok \/ DayNumber(e.date) > DayNumber(agg.last)
                                    THEN SomeDate(e.date) ELSE agg.last]
        Perf(rep) ==
            LET keys == Keys(rep, Len(entries))
            IN  sort("perf",
                     [i \in DOMAIN keys |->
                        LET agg == Agg(rep, keys[i], Len(entries))
                            weeksYTD == Cardinality(agg.ytdWeeks)
                        IN  [turf |-> keys[i],
                             avgPerWeekYTD |-> IF weeksYTD > 0
                                               THEN [n |-> agg.ytdSales, d |-> weeksYTD]
                                               ELSE [n |-> 0, d |-> 1],
                             last |-> agg.last]])
        Dated(turf, avg, note) ==
            [turf |-> turf, avgPerWeekYTD |-> avg, nextWeekMonday |-> nextWeekMonday,
             nextRefreshMonday |-> nextRefreshMonday, note |-> note]
        \* the first entry of the sorted list that is not too recent
        Pick(rep, perf) ==
            LET open == {i \in DOMAIN perf :
                           ~(perf[i].last.ok
                             /\ DayNumber(perf[i].last) > DayNumber(threeWeeksAgoMon))}
                chosen == CHOOSE i \in open : \A j \in open : i <= j
            IN  IF open = {}
                THEN [rep |-> rep,
                      suggestion |-> Dated(NoSuggestion, NoPct,
                          "All turfs are too recent (visited within last 3 weeks). Revisit after 3 weeks.")]
                ELSE [rep |-> rep,
                      suggestion |-> Dated(perf[chosen].turf,
                          [null |-> FALSE, n |-> perf[chosen].avgPerWeekYTD.n,
                           d |-> perf[chosen].avgPerWeekYTD.d], "")]
        Result(rep) == CHOOSE r \in {Pick(rep, perf) : perf \in {Perf(rep)}} : TRUE
        \* the results, then the reps of allRepsFromM without a result, sorted
        Close(reps, results) ==
            LET missing == SelectSeq(reps, LAMBDA rep :
                                       \A i \in DOMAIN results : results[i].rep # rep)
            IN  sort("results",
                     results \o [i \in DOMAIN missing |->
                                    [rep |-> missing[i],
                                     suggestion |-> Dated(NoSuggestion, NoPct,
                                                          "No data yet for this rep.")]])
    IN  CHOOSE out \in
          UNION { {Close(reps, results) : results \in {[i \in DOMAIN reps |-> Result(reps[i])]}} :
                    reps \in {allRepsFromM(entries)} } : TRUE

\* Grids of a header row and data rows for the visits of two reps to two
\* territories 2, 18 or 24 days before today (rep b: 2 or 35 days), read on
\* a Monday and on a Thursday; each input keeps the visits as the sheet
\* dates them
SuggestInputs ==
    LET Blank == [k \in 1..(P_IDX - 3) |-> <<>>]
        Header == Blank \o <<<<"R","e","p">>, <<"D","a","t","e">>, <<"T","u","r","f">>, <<"S","a","l","e","s">>>>
        Kinds == [rep : {<<"a">>}, turf : {<<"t">>, <<"u">>}, ago : {2, 18, 24}, count : {1, 3}]
                 \cup [rep : {<<"b">>}, turf : {<<"t">>, <<"u">>}, ago : {2, 35}, count : {1}]
        Lists == UNION {[1..k -> Kinds] : k \in 0..MaxDataRows}
        Todays == {[y |-> 2025, m |-> 6, d |-> 16], [y |-> 2025, m |-> 6, d |-> 19]}
        Day(today, ago) == NormDay(today.y, today.m, today.d - ago)
        Text(day) == padStart2(day.d) \o <<"/">> \o padStart2(day.m) \o <<"/">> \o ToDigits(day.y)
    IN  { [grid |-> <<Header>> \o
                    [k \in DOMAIN l |->
                       Blank \o <<l[k].rep, Text(Day(today, l[k].ago)), l[k].turf,
                                  ToDigits(l[k].count)>>],
           visits |-> [k \in DOMAIN l |->
                         [rep |-> l[k].rep, turf |-> l[k].turf,
                          day |-> Day(today, l[k].ago), count |-> l[k].count]],
           today |-> today] :
            l \in Lists, today \in Todays }

CallTurfSuggestions ==
    /\ calc = NoCalc
    /\ \E a \in SuggestInputs :
         \E entries \in {turfEntries(a.grid)} :
            calc' = [op |-> "turfSuggestions", in |-> a,
                     out |-> turfSuggestions(entries, a.today)]
    /\ UNCHANGED <<gateVars, dashVars>>

\* The entry turfEntries pushes for a valid row dated day
Visit(rep, turf, day, count) ==
    LET mon == mondayOfWeek(day)
    IN  [rep |-> rep, turf |-> turf, week |-> weekKey(mon),
         date |-> [y |-> mon.y, m |-> mon.m, d |-> mon.d],
         count |-> count, month |-> ym(mon)]

(***************************************************************************)
(* calcRepTurfStats: the drill-in figures of one rep in one territory      *)
(***************************************************************************)
\* weeksBetween: whole weeks between the Mondays of two days, never negative
weeksBetween(a, b) ==
    LET ms == DayNumber(mondayOfWeek(a)) - DayNumber(mondayOfWeek(b))
    IN  IF ms > 0 THEN ms \div 7 ELSE 0

\* A next-eligible date two weeks after the last visit
nextEligible_TwoWeeks(last, today) ==
    IF last.ok THEN mondayOfWeek(MakeDate(last.y, last.m - 1, last.d + 14))
    ELSE mondayOfWeek(today)

\* next eligible week after the 3-week rule
nextEligible(last, today) ==
    IF last.ok THEN mondayOfWeek(MakeDate(last.y, last.m - 1, last.d + 21))
    ELSE mondayOfWeek(today)

calcRepTurfStats(turfEs, rep, turf, today, monthKey) ==
    LET ytdStartNow == MakeDate(today.y, 0, 1)
        entries == {k \in DOMAIN turfEs : turfEs[k].rep = rep /\ turfEs[k].turf = turf}
        ytdEntries == {k \in entries : /\ DateLE(ytdStartNow, turfEs[k].date)
                                        /\ DateLE(turfEs[k].date, today)}
        seasonal == {k \in entries : turfEs[k].date.m = today.m}
        monthEntries == {k \in entries : turfEs[k].month = monthKey}
        RECURSIVE Sales(_, _)
        Sales(S, k) == IF k = 0 THEN 0
                       ELSE Sales(S, k - 1) + (IF k \in S THEN turfEs[k].count ELSE 0)
        Weeks(S) == Cardinality({turfEs[k].week : k \in S})
        Avg(S) == IF Weeks(S) > 0 THEN [n |-> Sales(S, Len(turfEs)), d |-> Weeks(S)]
                  ELSE [n |-> 0, d |-> 1]
        \* reduce keeps the first of the latest dates
        Latest(S) == IF S = {} THEN NoDate
                     ELSE SomeDate(turfEs[CHOOSE k \in S : \A j \in S :
                                      DayNumber(turfEs[j].date) <= DayNumber(turfEs[k].date)].date)
        \* reduce((a, b) => b.count > a.count ? b : a): the first of the largest
        Extreme(S, dir) ==
            IF S = {} THEN <<>>
            ELSE <<turfEs[CHOOSE k \in S : \A j \in S :
                     \/ dir * turfEs[j].count < dir * turfEs[k].count
                     \/ dir * turfEs[j].count = dir * turfEs[k].count /\ k <= j]>>
        anyOf == {k \in DOMAIN turfEs : turfEs[k].turf = turf}
        \* the first entry of the territory with the latest date
        lastAnyAt == CHOOSE k \in anyOf : \A j \in anyOf :
                        \/ DayNumber(turfEs[j].date) < DayNumber(turfEs[k].date)
                        \/ turfEs[j].date = turfEs[k].date /\ k <= j
        Since(dt) == IF dt.ok THEN <<weeksBetween(today, dt)>> ELSE <<>>
    IN  [lifetimeSales |-> Sales(entries, Len(turfEs)),
         lifetimeWeeks |-> Weeks(entries),
         avgPerVisit |-> Avg(entries),
         ytdSales |-> Sales(ytdEntries, Len(turfEs)),
         ytdWeeks |-> Weeks(ytdEntries),
         ytdAvg |-> Avg(ytdEntries),
         last |-> Latest(entries),
         weeksSinceLast |-> Since(Latest(entries)),
         best |-> Extreme(entries, 1),
         worst |-> Extreme(entries, 0 - 1),
         seasonalAvg |-> Avg(seasonal),
         nextEligible |-> nextEligible(Latest(entries), today),
         monthWeeks |-> Weeks(monthEntries),
         monthSales |-> Sales(monthEntries, Len(turfEs)),
         lastAny |-> Latest(anyOf),
         lastAnyRep |-> IF anyOf = {} THEN <<>> ELSE turfEs[lastAnyAt].rep,
         weeksSinceAny |-> Since(Latest(anyOf))]

\* The drill-in of every rep and territory of the sheet, next to the
\* suggestions computed from the same entries on the same day
CallRepTurfStats ==
    /\ calc = NoCalc
    /\ \E a \in SuggestInputs :
         \E entries \in {turfEntries(a.grid)} :
            calc' = [op |-> "calcRepTurfStats", in |-> a,
                     out |-> [stats |->
                                [p \in {entries[k].rep : k \in DOMAIN entries}
                                          \X {entries[k].turf : k \in DOMAIN entries} |->
                                   calcRepTurfStats(entries, p[1], p[2], a.today, ym(a.today))],
                              suggestions |-> turfSuggestions(entries, a.today)]]
    /\ UNCHANGED <<gateVars, dashVars>>

(***************************************************************************)
(* Lifetime sales distribution, computed at render from the turf entries   *)
(***************************************************************************)
MaxTurfs == 3

\* allTurfs: the distinct territories of the entries, sorted
allTurfs(entries) ==
    LET RECURSIVE Turfs(_)
        Turfs(k) == IF k = 0 THEN <<>>
                    ELSE IF entries[k].turf \in Range(Turfs(k - 1)) THEN Turfs(k - 1)
                    ELSE Append(Turfs(k - 1), entries[k].turf)
    IN  sort("names", Turfs(Len(entries)))

\* A flag on every territory idle for 4 weeks, whatever its position
highlight_AnyPosition(idx, weeksIdle) == weeksIdle >= 4

\* idx < 2 && t.weeksIdle >= 4, idx counted from 0
highlight(idx, weeksIdle) == idx < 2 /\ weeksIdle >= 4

distribution(entries, today) ==
    LET RECURSIVE Total(_, _)
        \* the sum of e.count || 0 over the entries of the set S
        Total(S, k) == IF k = 0 THEN 0
                       ELSE Total(S, k - 1) + (IF k \in S THEN entries[k].count ELSE 0)
        OfTurf(t) == {k \in DOMAIN entries : entries[k].turf = t}
        OfRep(r) == {k \in DOMAIN entries : entries[k].rep = r}
        totalsByTurf(t) == Total(OfTurf(t), Len(entries))
        totalsByRep(r) == Total(OfRep(r), Len(entries))
        lastAnyByTurf(t) ==
            entries[CHOOSE k \in OfTurf(t) : \A j \in OfTurf(t) :
                       DayNumber(entries[j].date) <= DayNumber(entries[k].date)].date
        Pct(c, total) == IF total > 0 THEN [n |-> 100 * c, d |-> total] ELSE [n |-> 0, d |-> 1]
        Dist(turfs, grandTotal) ==
            sort("share", [i \in DOMAIN turfs |->
                             [turf |-> turfs[i], count |-> totalsByTurf(turfs[i]),
                              pct |-> Pct(totalsByTurf(turfs[i]), grandTotal)]])
        Ranking(rep, repTotal, turfDist) ==
            LET list == sort("share",
                             [i \in DOMAIN turfDist |->
                                LET c == Total(OfRep(rep) \cap OfTurf(turfDist[i].turf),
                                               Len(entries))
                                IN  [turf |-> turfDist[i].turf, pct |-> Pct(c, repTotal),
                                     count |-> c,
                                     weeksIdle |-> weeksBetween(today,
                                                       lastAnyByTurf(turfDist[i].turf))]])
            IN  CHOOSE out \in
                  {[rep |-> rep, repTotal |-> repTotal,
                    list |-> [i \in DOMAIN l |->
                                [turf |-> l[i].turf, pct |-> l[i].pct, count |-> l[i].count,
                                 weeksIdle |-> l[i].weeksIdle,
                                 highlight |-> highlight(i - 1, l[i].weeksIdle)]]] :
                     l \in {list}} : TRUE
        Rankings(reps, turfDist) ==
            LET repsOrdered == sort("repsOrdered",
                                    [i \in DOMAIN reps |->
                                       [rep |-> reps[i], repTotal |-> totalsByRep(reps[i])]])
            IN  CHOOSE out \in
                  {[i \in DOMAIN ro |-> Ranking(ro[i].rep, ro[i].repTotal, turfDist)] :
                     ro \in {repsOrdered}} : TRUE
    IN  CHOOSE out \in
          {[turfDist |-> td, repRankings |-> Rankings(allRepsFromM(entries), td)] :
             td \in {Dist(allTurfs(entries), Total(DOMAIN entries, Len(entries)))}} : TRUE

\* Entries read on Thursday 2025-06-19: each of MaxTurfs territories was
\* visited by rep b this week, 3 weeks or 4 weeks ago (1 sale), and by rep a
\* 6 weeks ago with 1 or 2 sales or not at all.  idle and sold keep, per
\* territory, the weeks since anyone's last visit and rep a's sales.
DistInputs ==
    LET today == [y |-> 2025, m |-> 6, d |-> 19]
        mon == mondayOfWeek(today)
        Day(k) == NormDay(mon.y, mon.m, mon.d - (7 * k) + 2)
        Names == <<<<"t">>, <<"u">>, <<"v">>, <<"w">>>>
        RECURSIVE Rows(_, _, _)
        Rows(idle, sold, i) ==
            IF i > MaxTurfs THEN <<>>
            ELSE <<Visit(<<"b">>, Names[i], Day(idle[i]), 1)>>
                 \o (IF sold[i] = 0 THEN <<>>
                     ELSE <<Visit(<<"a">>, Names[i], Day(6), sold[i])>>)
                 \o Rows(idle, sold, i + 1)
    IN  { [entries |-> Rows(idle, sold, 1), today |-> today,
           turfs |-> [i \in 1..MaxTurfs |-> Names[i]],
           idle |-> idle, sold |-> sold] :
            idle \in [1..MaxTurfs -> {0, 3, 4}], sold \in [1..MaxTurfs -> 0..2] }

RenderDistribution ==
    /\ calc = NoCalc
    /\ \E a \in DistInputs :
         calc' = [op |-> "distribution", in |-> a, out |-> distribution(a.entries, a.today)]
    /\ UNCHANGED <<gateVars, dashVars>>

(***************************************************************************)
(* Rotation guardrails, computed at render from the turf entries           *)
(***************************************************************************)
GuardrailWeeks == 12
MaxWeeks == 4

\* A guardrail that warns from two weeks on
isViolation_TwoWeeks(streak, curTurf) == streak > 1 /\ curTurf # <<>>

\* streak > 2 && curTurf
isViolation(streak, curTurf) == streak > 2 /\ curTurf # <<>>

\* The warnings of the guardrail section, in the order they are pushed
rotationWarnings(entries, today) ==
    LET RECURSIVE Reps(_)
        \* the keys of byRepWeekTurf, in insertion order
        Reps(k) == IF k = 0 THEN <<>>
                   ELSE IF entries[k].rep \in Range(Reps(k - 1)) THEN Reps(k - 1)
                   ELSE Append(Reps(k - 1), entries[k].rep)
        \* wkMap.get(w) || "": Map.set keeps the last entry of the rep's week
        Get(rep, w) ==
            LET at == {k \in DOMAIN entries : entries[k].rep = rep /\ entries[k].week = w}
            IN  IF at = {} THEN <<>>
                ELSE entries[CHOOSE k \in at : \A j \in at : j <= k].turf
        mon == mondayOfWeek(today)
        \* weeks[i]: d steps back 7 days at a time from this week's Monday
        weeks == [i \in 1..GuardrailWeeks |->
                    weekKey(MakeDate(mon.y, mon.m - 1, mon.d - (7 * (i - 1))))]
        Flush(rep, st) ==
            IF isViolation(st.streak, st.curTurf)
            THEN Append(st.warnings, [rep |-> rep, turf |-> st.curTurf,
                                      streak |-> st.streak, weeks |-> st.streakWeeks])
            ELSE st.warnings
        Step(rep, st, w, t) ==
            IF t # <<>> /\ t = st.curTurf
            THEN [st EXCEPT !.streak = @ + 1, !.streakWeeks = Append(@, w)]
            ELSE IF t # <<>>
            THEN [curTurf |-> t, streak |-> 1, streakWeeks |-> <<w>>,
                  warnings |-> Flush(rep, st)]
            ELSE [curTurf |-> <<>>, streak |-> 0, streakWeeks |-> <<>>,
                  warnings |-> Flush(rep, st)]
        RECURSIVE Scan(_, _, _, _)
        \* the loop over weeks from position i on, the state bound once a step
        Scan(rep, ws, st, i) ==
            IF i > Len(ws) THEN Flush(rep, st)
            ELSE CHOOSE out \in
                   {Scan(rep, ws, next, i + 1) :
                      next \in {Step(rep, st, ws[i], Get(rep, ws[i]))}} : TRUE
        RECURSIVE Each(_, _, _, _)
        \* byRepWeekTurf.forEach
        Each(reps, ws, warnings, k) ==
            IF k > Len(reps) THEN warnings
            ELSE CHOOSE out \in
                   {Each(reps, ws, more, k + 1) :
                      more \in {Scan(reps[k], ws,
                                     [curTurf |-> <<>>, streak |-> 0, streakWeeks |-> <<>>,
                                      warnings |-> warnings], 1)}} : TRUE
    IN  CHOOSE out \in
          {Each(reps, ws, <<>>, 1) : reps \in {Reps(Len(entries))}, ws \in {weeks}} : TRUE

\* Entries of rep a read on Thursday 2025-06-19: the MaxWeeks most recent
\* weeks each in territory t, in u or unvisited, a run of t at the far end
\* of the scanned weeks, and at most one more row of a recent week, first or
\* last in the grid.  assigned is the territory of each week, counted back
\* from the current one, when every week has one territory at most.
RotationInputs ==
    LET today == [y |-> 2025, m |-> 6, d |-> 19]
        mon == mondayOfWeek(today)
        Day(k) == NormDay(mon.y, mon.m, mon.d - (7 * k) + 2)
        Near == [0..(MaxWeeks - 1) -> {<<>>, <<"t">>, <<"u">>}]
        Far == {{}, {9, 10, 11}, {10, 11, 12}, {8, 9, 10, 11, 12}}
        Extras == {[at |-> "none", week |-> 0, turf |-> <<>>]}
                  \cup [at : {"first", "last"}, week : 0..(MaxWeeks - 1),
                        turf : {<<"t">>, <<"u">>}]
        Assigned(near, far) ==
            [k \in 0..(GuardrailWeeks + 1) |->
               IF k < MaxWeeks THEN near[k] ELSE IF k \in far THEN <<"t">> ELSE <<>>]
        RECURSIVE Rows(_, _)
        Rows(as, k) ==
            IF k > GuardrailWeeks + 1 THEN <<>>
            ELSE (IF as[k] = <<>> THEN <<>> ELSE <<Visit(<<"a">>, as[k], Day(k), 1)>>)
                 \o Rows(as, k + 1)
        With(es, x) ==
            CASE x.at = "none" -> es
              [] x.at = "first" -> <<Visit(<<"a">>, x.turf, Day(x.week), 1)>> \o es
              [] x.at = "last" -> es \o <<Visit(<<"a">>, x.turf, Day(x.week), 1)>>
    IN  { [entries |-> With(Rows(Assigned(c[1], c[2]), 0), c[3]),
           today |-> today,
           assigned |-> Assigned(c[1], c[2]),
           extra |-> c[3]] :
            c \in {n \in Near \X Far \X Extras : n[3].at = "none" \/ n[2] = {}} }

RenderGuardrails ==
    /\ calc = NoCalc
    /\ \E a \in RotationInputs :
         calc' = [op |-> "rotationWarnings", in |-> a,
                  out |-> rotationWarnings(a.entries, a.today)]
    /\ UNCHANGED <<gateVars, dashVars>>

(***************************************************************************)
(* normNum on cell texts                                                   *)
(***************************************************************************)
\* Cell texts with the number each one writes: comma-decimal amounts (periods
\* group the thousands), period-decimal amounts (commas group the thousands),
\* and texts that write no number
NumInputs ==
    LET Signs == {[t |-> <<>>, f |-> 1], [t |-> <<"-">>, f |-> 0 - 1]}
        Marks == {<<>>, <<"$">>, <<" ">>}
        CommaInts == {[t |-> <<"0">>, v |-> 0], [t |-> <<"1","2">>, v |-> 12],
                      [t |-> <<"1",".","2","3","4">>, v |-> 1234], [t |-> <<"1",".","2","3","4",".","5","6","7">>, v |-> 1234567]}
        PeriodInts == {[t |-> <<"0">>, v |-> 0], [t |-> <<"1","2">>, v |-> 12],
                       [t |-> <<"1",",","2","3","4">>, v |-> 1234], [t |-> <<"1",",","2","3","4",",","5","6","7">>, v |-> 1234567]}
        Fracs == {[t |-> <<"5">>, v |-> 5], [t |-> <<"5","6">>, v |-> 56], [t |-> <<"0","5">>, v |-> 5]}
        Amount(g, i, f) == [num |-> g.f * ((i.v * Pow10(Len(f.t))) + f.v), scale |-> Len(f.t)]
        Whole(g, i) == [num |-> g.f * i.v, scale |-> 0]
    IN  { [text |-> m \o g.t \o i.t \o <<",">> \o f.t, form |-> "comma", value |-> Amount(g, i, f)] :
            m \in Marks, g \in Signs, i \in CommaInts, f \in Fracs }
        \cup
        { [text |-> m \o g.t \o i.t \o <<".">> \o f.t, form |-> "period", value |-> Amount(g, i, f)] :
            m \in Marks, g \in Signs, i \in PeriodInts, f \in Fracs }
        \cup
        { [text |-> m \o g.t \o i.t, form |-> "period", value |-> Whole(g, i)] :
            m \in Marks, g \in Signs, i \in PeriodInts }
        \cup
        { [text |-> t, form |-> "none", value |-> Zero] :
            t \in {<<>>, <<" ">>, <<"a","b","c">>, <<"-">>, <<".">>, <<"n","/","a">>, <<"$">>} }

CallNormNum ==
    /\ calc = NoCalc
    /\ \E a \in NumInputs :
         calc' = [op |-> "normNum", in |-> a, out |-> normNum(a.text)]
    /\ UNCHANGED <<gateVars, dashVars>>

(***************************************************************************)
(* parseMonthKey on month texts                                            *)
(***************************************************************************)
\* Month texts with their form: "name" is MONTH_NAME YYYY, "mm-yyyy" and
\* "yyyy-mm" are the two numeric forms, "loose" is a variant of one of them
\* (another separator, none, padding, a month number outside 1..12), "other"
\* is none of them
MonthKeyInputs ==
    LET Years == {[t |-> <<"2","0","2","5">>, v |-> 2025], [t |-> <<"2","0","2","4">>, v |-> 2024]}
        Names == {[t |-> <<"J","U","N","E">>, v |-> 6],
                  [t |-> <<"J","u","n","e">>, v |-> 6],
                  [t |-> <<"j","u","n">>, v |-> 6],
                  [t |-> <<"J","A","N","U","A","R","Y">>, v |-> 1],
                  [t |-> <<"S","e","p","t">>, v |-> 9],
                  [t |-> <<"D","E","C","E","M","B","E","R">>, v |-> 12]}
        Nums == {[t |-> <<"0","6">>, v |-> 6],
                 [t |-> <<"6">>, v |-> 6],
                 [t |-> <<"0","1">>, v |-> 1],
                 [t |-> <<"1","2">>, v |-> 12],
                 [t |-> <<"1","0">>, v |-> 10]}
    IN  { [text |-> n.t \o <<" ">> \o y.t, form |-> "name", y |-> y.v, m |-> n.v] : n \in Names, y \in Years }
        \cup
        { [text |-> n.t \o <<"-">> \o y.t, form |-> "mm-yyyy", y |-> y.v, m |-> n.v] : n \in Nums, y \in Years }
        \cup
        { [text |-> y.t \o <<"-">> \o n.t, form |-> "yyyy-mm", y |-> y.v, m |-> n.v] : n \in Nums, y \in Years }
        \cup
        { [text |-> t, form |-> "loose", y |-> 0, m |-> 0] :
            t \in {<<"0","6","/","2","0","2","5">>,
                   <<"2","0","2","5","/","0","6">>,
                   <<"0","6","2","0","2","5">>,
                   <<"1","3","-","2","0","2","5">>,
                   <<"2","0","2","5","-","1","3">>,
                   <<"0","0","-","2","0","2","5">>,
                   <<" "," ","0","6","-","2","0","2","5"," ">>,
                   <<"J","u","n","e"," "," "," ","2","0","2","5">>} }
        \cup
        { [text |-> t, form |-> "other", y |-> 0, m |-> 0] :
            t \in {<<"J","U","N","K"," ","2","0","2","5">>,
                   <<"2","0","2","5","0","6">>,
                   <<"F","o","o"," ","2","0","2","5">>,
                   <<"J","u","n","e">>,
                   <<"J","u","n","e"," ","2","5">>,
                   <<"2","0","2","5">>,
                   <<"a","b","c">>,
                   <<"2","0","2","5","-","0","6","-","0","1">>,
                   <<"J","u","n","e","2","0","2","5">>,
                   <<"0","6","-","2","5">>} }

CallParseMonthKey ==
    /\ calc = NoCalc
    /\ \E a \in MonthKeyInputs :
         calc' = [op |-> "parseMonthKey", in |-> a, out |-> parseMonthKey(a.text)]
    /\ UNCHANGED <<gateVars, dashVars>>

(***************************************************************************)
(* app/api/auth/route.ts with the redirect's Location resolved             *)
(***************************************************************************)
\* new URL(input, base) for inputs without credentials, port or fragment: a
\* URL is its scheme, its host and the rest.  With a special scheme a
\* backslash counts as a slash; two leading slashes, or a scheme other than
\* the base's, start an authority; a scheme that is not special gives a URL
\* with an opaque origin (host <<>>).
URL(input, base) ==
    LET s == TrimStr(input)
        IsSchemeChar(ch) == IsLetter(ch) \/ IsDigit(ch) \/ ch \in {"+", "-", "."}
        IsSlash(ch) == ch \in {"/", "\\"}
        NotSlash(ch) == ~IsSlash(ch)
        n == RunLen(s, IsSchemeChar)
        scheme == IF n >= 1 /\ IsLetter(s[1]) /\ Len(s) > n /\ s[n + 1] = ":"
                  THEN ToLower(Take(s, n)) ELSE <<>>
        rest == IF scheme = <<>> THEN s ELSE Drop(s, n + 1)
        Authority(r, sch) ==
            LET h == RunLen(r, NotSlash)
            IN  [scheme |-> sch, host |-> ToLower(Take(r, h)),
                 path |-> IF h = Len(r) THEN <<"/">> ELSE <<"/">> \o Drop(r, h + 1)]
        Relative(r) ==
            IF Len(r) >= 2 /\ IsSlash(r[1]) /\ IsSlash(r[2])
            THEN Authority(Drop(r, RunLen(r, IsSlash)), base.scheme)
            ELSE IF r # <<>> /\ IsSlash(r[1])
            THEN [base EXCEPT !.path = <<"/">> \o Tail(r)]
            ELSE LET cut == CHOOSE i \in DOMAIN base.path :
                              /\ base.path[i] = "/"
                              /\ \A j \in DOMAIN base.path : base.path[j] = "/" => j <= i
                 IN  [base EXCEPT !.path = Take(base.path, cut) \o r]
    IN  IF scheme = <<>> THEN Relative(rest)
        ELSE IF scheme \notin {<<"h","t","t","p">>, <<"h","t","t","p","s">>}
        THEN [scheme |-> scheme, host |-> <<>>, path |-> rest]
        ELSE IF scheme = base.scheme /\ ~(Len(rest) >= 2 /\ IsSlash(rest[1]) /\ IsSlash(rest[2]))
        THEN Relative(rest)
        ELSE Authority(Drop(rest, RunLen(rest, IsSlash)), scheme)

\* The origin of a URL; an opaque origin equals no other
origin(u) == <<u.scheme, u.host>>

\* POST of app/api/auth/route.ts: the redirect with its Location as
\* new URL(next, req.url) resolves it
AuthPOST_URL(form, reqUrl) ==
    LET next == IF form.next = <<>> THEN <<"/">> ELSE form.next
    IN  IF form.username = ADMIN_USER /\ form.password = ADMIN_PASS
        THEN [status |-> 307, location |-> URL(next, reqUrl), err |-> FALSE,
              nextParam |-> <<>>, set |-> TRUE, maxAge |-> 30 * 24 * 60 * 60]
        ELSE [status |-> 307, location |-> URL(PLogin, reqUrl), err |-> TRUE,
              nextParam |-> next, set |-> FALSE, maxAge |-> 0]

\* Login forms posted to https://dash.example/api/auth: right or wrong
\* credentials, and a next field that is absent, a path, a relative
\* reference, or ("url") a text with a scheme or an authority
AuthInputs ==
    LET Nexts == {[kind |-> "absent", text |-> <<>>],
                  [kind |-> "path", text |-> <<"/">>],
                  [kind |-> "path", text |-> <<"/","l","o","g","i","n">>],
                  [kind |-> "path", text |-> <<"/","?","t","a","b","=","t","u","r","f">>],
                  [kind |-> "relative", text |-> <<"r","e","p","o","r","t","s">>],
                  [kind |-> "url", text |-> <<"h","t","t","p","s",":","/","/","d","a","s","h",".","e","x","a","m","p","l","e","/","r","e","p","o","r","t","s">>],
                  [kind |-> "url", text |-> <<"h","t","t","p","s",":","/","r","e","p","o","r","t","s">>],
                  [kind |-> "url", text |-> <<"h","t","t","p","s",":","/","/","e","v","i","l",".","e","x","a","m","p","l","e","/">>],
                  [kind |-> "url", text |-> <<"h","t","t","p",":","/","/","d","a","s","h",".","e","x","a","m","p","l","e","/">>],
                  [kind |-> "url", text |-> <<"/","/","e","v","i","l",".","e","x","a","m","p","l","e","/","x">>],
                  [kind |-> "url", text |-> <<"/","\\","e","v","i","l",".","e","x","a","m","p","l","e">>],
                  [kind |-> "url", text |-> <<"j","a","v","a","s","c","r","i","p","t",":","a","l","e","r","t","(","1",")">>]}
    IN  { [form |-> [username |-> u, password |-> p, next |-> x.text], kind |-> x.kind,
           url |-> [scheme |-> <<"h","t","t","p","s">>, host |-> <<"d","a","s","h",".","e","x","a","m","p","l","e">>, path |-> PApiAuth]] :
            u \in {ADMIN_USER, "guest"}, p \in {ADMIN_PASS, "letmein"}, x \in Nexts }

CallAuthPOST ==
    /\ calc = NoCalc
    /\ \E a \in AuthInputs :
         calc' = [op |-> "authPOST", in |-> a, out |-> AuthPOST_URL(a.form, a.url)]
    /\ UNCHANGED <<gateVars, dashVars>>

CallNormalizeRow ==
    /\ calc = NoCalc
    /\ \E a \in RowInputs :
         calc' = [op |-> "normalizeRow", in |-> a, out |-> normalizeRow(a.row)]
    /\ UNCHANGED <<gateVars, dashVars>>

Init == InitGate /\ InitDash /\ InitCalc

SpecGate == Init /\ [][NextGate]_vars

SpecDash == Init /\ [][NextDash]_vars

\* Every network call completes: the longest-suspended activation always
\* gets to run on, so each activation in turn runs to its end
SpecDashFair == Init /\ [][NextDashFair]_vars /\ WF_vars(Settle)

NextCalc ==
    \/ CallNormalizeRow
    \/ CallNormNum
    \/ CallParseMonthKey
    \/ CallAuthPOST
    \/ CallTurfEntries
    \/ CallCompany
    \/ CallProductRows
    \/ CallAvgRows
    \/ CallRepRows
    \/ RenderProductTable
    \/ CallTurfSuggestions
    \/ RenderGuardrails
    \/ CallRepTurfStats
    \/ RenderDistribution

SpecCalc == Init /\ [][NextCalc]_vars

(***************************************************************************)
(* Properties of the sheet proxy                                           *)
(***************************************************************************)
\* GET /api/sheet has reached its route handler
SheetAnswered ==
    InFlight /\ req.path = PApiSheet /\ req.method = "GET" /\ resp.gate # "redirect"

\* C11: GET /api/sheet answers 200 with the CSV only when the URL is set, the
\* upstream answered 2xx and its body is non-empty; 500 when the URL is unset
\* or the fetch throws, 502 on an upstream non-2xx, an error status on an
\* empty body; and it calls the upstream at most once.
C11_SheetStatuses ==
    SheetAnswered =>
        /\ (resp.ans.status = 200) <=> (req.up = "csv")
        /\ req.up = "csv" => resp.ans.body = "csv"
        /\ req.up \in {"unset", "throws"} => resp.ans.status = 500
        /\ req.up = "non2xx" => resp.ans.status = 502
        /\ req.up = "empty" => resp.ans.status >= 400
        /\ UpstreamCalls(req.up) <= 1

(***************************************************************************)
(* Properties of the row normalizer and the aggregations                   *)
(***************************************************************************)
\* C12: normalizeRow returns null exactly for the rows whose rep name is empty
\* after trimming or whose date neither the month column nor the fallback
\* date column resolves; every record it returns has a non-empty rep and the
\* first day of the month the row means as its date.
C12_NormalizeRowNullOrRecord ==
    calc.op = "normalizeRow" =>
        /\ (calc.out = <<>>) <=> (calc.in.name = <<>> \/ ~calc.in.means.ok)
        /\ calc.out # <<>> =>
              /\ Len(calc.out) = 1
              /\ calc.out[1].rep = calc.in.name /\ calc.out[1].rep # <<>>
              /\ calc.out[1].date =
                    [y |-> calc.in.means.y, m |-> calc.in.means.m, d |-> 1]

\* A row whose month cell does not parse is kept on the strength of its
\* date cell
C12_Witness ==
    /\ calc.op = "normalizeRow" /\ calc.out # <<>>
    /\ calc.in.means = Means(2024, 12)
    /\ \E i \in DOMAIN calc.in.row :
          calc.in.row[i][2] = <<"2","0","2","5","-","6","p">>

\* C13: the turf extraction yields an entry for a grid row exactly when its
\* cells M, N, O and P are all non-empty and N parses as DD/MM/YYYY; it drops
\* every other row, keeps the rows' order, and its start-row detection skips
\* no valid data row.
C13_TurfEntriesExactlyValidRows ==
    calc.op = "turfEntries" =>
        LET want == SelectSeq(calc.in.expect, LAMBDA e : e.ok)
        IN  /\ Len(calc.out) = Len(want)
            /\ \A k \in DOMAIN want :
                  /\ calc.out[k].rep = want[k].rep
                  /\ calc.out[k].turf = want[k].turf
                  /\ getDay(calc.out[k].date) = 1

\* A valid row that is the first row of the grid, followed by a row with a
\* two-digit year, which is dropped
C13_Witness ==
    /\ calc.op = "turfEntries"
    /\ Len(calc.in.grid) = 2 /\ Len(calc.out) = 1
    /\ calc.in.expect[1].ok /\ ~calc.in.expect[2].ok
    /\ calc.in.grid[2][P_IDX - 1] = <<"1","/","2","/","2","5">>

\* C14: the company delta is ((current - previous) / previous) * 100 when
\* the previous month's revenue is positive (100 and 120 give +20%); it is
\* the "new" flag with no percentage when the previous revenue is 0 and the
\* current is positive; otherwise there is neither; never both.
C14_CompanyDelta ==
    calc.op = "company" =>
        LET c == calc.out.company
            cur == calc.in.current
            prev == calc.in.previous
        IN  /\ ~(c.deltaIsNew /\ ~c.deltaPct.null)
            /\ prev > 0 =>
                  /\ ~c.deltaPct.null /\ ~c.deltaIsNew
                  /\ c.deltaPct.d > 0
                  /\ c.deltaPct.n * prev = (cur - prev) * 100 * c.deltaPct.d
            /\ (prev = 0 /\ cur > 0) =>
                  (c.deltaIsNew /\ c.deltaPct.null /\ calc.out.badge = <<"N", "E", "W">>)
            /\ (prev < 0 \/ (prev = 0 /\ cur <= 0)) =>
                  (~c.deltaIsNew /\ c.deltaPct.null /\ calc.out.badge = <<>>)
            /\ (prev = 100 /\ cur = 120) => calc.out.badge = <<"+", "2", "0", "%">>

\* Previous month 100, current month 120, viewed in January (the previous
\* month lies in the year before)
C14_Witness ==
    /\ calc.op = "company"
    /\ calc.in.previous = 100 /\ calc.in.current = 120
    /\ calc.in.tc.thisMonthKey = <<"2","0","2","5","-","0","1">>
    /\ calc.out.badge = <<"+", "2", "0", "%">>

\* C15: a product's historical profit and margin are made of exactly the
\* records dated in the context year, not after the context month, and, in
\* live mode, not in the context month: in live mode no record of the
\* context month contributes, in selected-month mode those of the selected
\* month do, and in both modes none after the context month's end or before
\* 1 January of the context year does.
C15_HistoricalWindow ==
    calc.op = "productRows" =>
        LET a == calc.in
            Counts(r) == /\ r.date.y = a.year /\ r.date.m <= a.month
                         /\ ~(a.tc.live /\ r.date.m = a.month)
            RECURSIVE Sum(_)
            Sum(k) == IF k = 0 THEN <<0, 0>>
                      ELSE IF Counts(a.rows[k])
                      THEN <<Sum(k - 1)[1] + a.rows[k].amount.num,
                             Sum(k - 1)[2] + a.rows[k].profit.num>>
                      ELSE Sum(k - 1)
            rev == Sum(Len(a.rows))[1]
            prof == Sum(Len(a.rows))[2]
        IN  /\ (calc.out = <<>>) => (prof = 0 /\ rev = 0)
            /\ \A i \in DOMAIN calc.out :
                  /\ calc.out[i].totalProfitAll = [num |-> prof, scale |-> 0]
                  /\ calc.out[i].marginPctAll.n * rev
                        = 100 * prof * calc.out[i].marginPctAll.d

\* Live mode: a record of the context month next to one of the month before,
\* and only the earlier one makes up the historical profit
C15_Witness ==
    /\ calc.op = "productRows" /\ calc.in.tc.live
    /\ \E i \in DOMAIN calc.in.rows : calc.in.rows[i].date.m = calc.in.month
    /\ \E i \in DOMAIN calc.in.rows :
          /\ calc.in.rows[i].date.m = calc.in.month - 1
          /\ calc.out[1].totalProfitAll = calc.in.rows[i].profit
    /\ calc.out[1].mCount = 1

\* C16: a rep's average profit per sale, all-time and year-to-date, is the
\* profit per sale of the rep's records dated in months before the context
\* month: no record of the context month or of a later month enters the
\* profit sum or the sale count.
C16_AverageFromPriorMonths ==
    calc.op = "avgRows" =>
        LET a == calc.in
            Prior(rep) == {k \in DOMAIN a.rows :
                             /\ a.rows[k].rep = rep
                             /\ \/ a.rows[k].date.y < a.year
                                \/ a.rows[k].date.y = a.year /\ a.rows[k].date.m < a.month}
            RECURSIVE Profit(_, _)
            Profit(rep, k) == IF k = 0 THEN 0
                              ELSE Profit(rep, k - 1)
                                     + (IF k \in Prior(rep) THEN a.rows[k].profit.num ELSE 0)
            Expected(rep) == [n |-> Profit(rep, Len(a.rows)), d |-> Cardinality(Prior(rep))]
        IN  \A i \in DOMAIN calc.out :
              LET e == Expected(calc.out[i].rep)
              IN  IF e.d = 0 THEN calc.out[i].mAvg.n = 0 /\ calc.out[i].yAvg.n = 0
                  ELSE /\ FracCmp(calc.out[i].mAvg, e) = 0
                       /\ FracCmp(calc.out[i].yAvg, e) = 0

\* C17: every ranking shown is ordered by its primary metric descending, then
\* its secondary metric descending, then the name ascending, whatever the
\* order of the input rows.  For the rep table and the product table, whose
\* secondary metric the text leaves open, this asks what every choice of it
\* implies: the primary metric never increases down the table and two
\* neighbours equal in every metric stand in name order.
C17_RankingOrder ==
    calc.op \in {"avgRows", "repRows", "productTable"} =>
    \A i \in 1..(Len(calc.out) - 1) :
        LET x == calc.out[i]
            y == calc.out[i + 1]
        IN  CASE calc.op = "avgRows" ->
                   \/ FracCmp(x.mAvg, y.mAvg) > 0
                   \/ FracCmp(x.mAvg, y.mAvg) = 0 /\ FracCmp(x.yAvg, y.yAvg) > 0
                   \/ /\ FracCmp(x.mAvg, y.mAvg) = 0 /\ FracCmp(x.yAvg, y.yAvg) = 0
                      /\ localeCompare(x.rep, y.rep) < 0
              [] calc.op = "repRows" ->
                   \/ DecCmp(x.yProfit, y.yProfit) > 0
                   \/ /\ DecCmp(x.yProfit, y.yProfit) = 0
                      /\ [x EXCEPT !.rep = <<>>] = [y EXCEPT !.rep = <<>>]
                            => localeCompare(x.rep, y.rep) < 0
              [] calc.op = "productTable" ->
                   \/ DecCmp(x.totalProfitAll, y.totalProfitAll) > 0
                   \/ /\ DecCmp(x.totalProfitAll, y.totalProfitAll) = 0
                      /\ [x EXCEPT !.product = <<>>] = [y EXCEPT !.product = <<>>]
                            => localeCompare(x.product, y.product) < 0
              [] OTHER -> TRUE

\* C24: the aggregates are a function of the record list, the live flag and
\* the context date alone: computed in any view with the same live flag and
\* the same context date, whatever the day of the render, they are the same.
C24_FunctionOfContextDate ==
    calc.op \in {"productRows", "avgRows", "repRows"} =>
        \A v \in Views :
            LET tc == TimeContext(v.live, v.sel, v.memoDay, v.renderDay)
            IN  (tc.live = calc.in.tc.live /\ tc.contextDate = calc.in.tc.contextDate) =>
                    calc.out = CASE calc.op = "productRows" -> productRows(calc.in.rows, tc)
                                 [] calc.op = "avgRows" -> avgRows(calc.in.rows, tc)
                                 [] calc.op = "repRows" -> repRows(calc.in.rows, tc)

(***************************************************************************)
(* Properties of the turf suggestions, stated over the visits as the sheet *)
(* dates them                                                              *)
(***************************************************************************)
\* The visits of a rep to a territory, and the territories a rep visited
VisitsOf(rep, turf) ==
    {k \in DOMAIN calc.in.visits :
        calc.in.visits[k].rep = rep /\ calc.in.visits[k].turf = turf}
TurfsOf(rep) == {calc.in.visits[k].turf : k \in {j \in DOMAIN calc.in.visits :
                                                  calc.in.visits[j].rep = rep}}

\* Days from the rep's last visit of the territory to today
DaysSinceLast(rep, turf) ==
    LET ago == {DayNumber(calc.in.today) - DayNumber(calc.in.visits[k].day) :
                  k \in VisitsOf(rep, turf)}
    IN  CHOOSE x \in ago : \A z \in ago : x <= z

\* The year-to-date sales per visited week (a week runs Monday to Sunday)
AvgPerWeek(rep, turf) ==
    LET v == calc.in.visits
        RECURSIVE Sales(_)
        Sales(k) == IF k = 0 THEN 0
                    ELSE Sales(k - 1) + (IF k \in VisitsOf(rep, turf) THEN v[k].count ELSE 0)
    IN  [n |-> Sales(Len(v)),
         d |-> Cardinality({(DayNumber(v[k].day) + 3) \div 7 : k \in VisitsOf(rep, turf)})]

\* t1 stands before t2 in the rep's order of territories
RanksBefore(rep, t1, t2) ==
    \/ FracCmp(AvgPerWeek(rep, t1), AvgPerWeek(rep, t2)) > 0
    \/ /\ FracCmp(AvgPerWeek(rep, t1), AvgPerWeek(rep, t2)) = 0
       /\ localeCompare(t1, t2) < 0

\* The rep's territories last visited more than 21 days before today
Qualifying(rep) == {t \in TurfsOf(rep) : DaysSinceLast(rep, t) > 21}

\* C18: for each rep the suggested territory is the first, by year-to-date
\* average per week descending then name, of those the rep last visited more
\* than 21 days before today; a territory last visited 21 days ago or less
\* is never suggested.
C18_FirstNotRecentTurf ==
    calc.op = "turfSuggestions" =>
        \A i \in DOMAIN calc.out :
            LET r == calc.out[i]
                q == Qualifying(r.rep)
            IN  IF q = {} THEN r.suggestion.turf = NoSuggestion
                ELSE /\ r.suggestion.turf \in q
                     /\ \A t \in q \ {r.suggestion.turf} :
                           RanksBefore(r.rep, r.suggestion.turf, t)

\* C19: the list holds exactly one result for every rep of the entries; a
\* result is NO SUGGESTION, with a note and a null average, exactly when none
\* of the rep's territories qualifies, and names a territory otherwise.
C19_OneResultPerRep ==
    calc.op = "turfSuggestions" =>
        /\ \A k \in DOMAIN calc.in.visits :
              Cardinality({i \in DOMAIN calc.out :
                             calc.out[i].rep = calc.in.visits[k].rep}) = 1
        /\ \A i \in DOMAIN calc.out :
              LET r == calc.out[i]
              IN  /\ TurfsOf(r.rep) # {}
                  /\ IF Qualifying(r.rep) = {}
                     THEN /\ r.suggestion.turf = NoSuggestion
                          /\ r.suggestion.note # ""
                          /\ r.suggestion.avgPerWeekYTD.null
                     ELSE r.suggestion.turf \in TurfsOf(r.rep)

\* C20: every territory of the data is a candidate for every rep, so a rep
\* gets NO SUGGESTION only when the rep visited every territory of the data
\* within the last 3 weeks.
C20_AllTurfsAreCandidates ==
    calc.op = "turfSuggestions" =>
        \A i \in DOMAIN calc.out :
            calc.out[i].suggestion.turf = NoSuggestion =>
                \A k \in DOMAIN calc.in.visits :
                    LET t == calc.in.visits[k].turf
                    IN  /\ t \in TurfsOf(calc.out[i].rep)
                        /\ DaysSinceLast(calc.out[i].rep, t) <= 21

C23_IdleAndShares ==
    calc.op = "distribution" =>
        LET a == calc.in
            At(t) == CHOOSE i \in DOMAIN a.turfs : a.turfs[i] = t
            RECURSIVE Sum(_, _)
            Sum(f, k) == IF k = 0 THEN 0 ELSE Sum(f, k - 1) + f[k]
            soldAll == Sum(a.sold, MaxTurfs)
            grand == soldAll + MaxTurfs
            mine == CHOOSE i \in DOMAIN calc.out.repRankings :
                        calc.out.repRankings[i].rep = <<"a">>
            list == calc.out.repRankings[mine].list
            \* a's share of territory i against territory j, cross-multiplied
            Above(i, j) == \/ a.sold[i] > a.sold[j]
                           \/ a.sold[i] = a.sold[j] /\ i < j
        IN  /\ Len(calc.out.turfDist) = MaxTurfs
            /\ \A i \in DOMAIN calc.out.turfDist :
                  LET d == calc.out.turfDist[i]
                  IN  d.pct.n * grand = 100 * (1 + a.sold[At(d.turf)]) * d.pct.d
            \* the shares, brought to the denominator grand, sum to 100
            /\ Sum([k \in DOMAIN calc.out.turfDist |->
                       (calc.out.turfDist[k].pct.n * grand) \div calc.out.turfDist[k].pct.d],
                   MaxTurfs) = 100 * grand
            \* rep b sold 1 in every territory: name order
            /\ \A r \in DOMAIN calc.out.repRankings :
                  calc.out.repRankings[r].rep = <<"b">> =>
                    \A i \in 1..MaxTurfs :
                       LET e == calc.out.repRankings[r].list[i]
                       IN  /\ e.turf = a.turfs[i]
                           /\ e.highlight <=> (i <= 2 /\ a.idle[i] >= 4)
            /\ soldAll > 0 =>
                  /\ Len(list) = MaxTurfs
                  /\ \A i \in 1..(Len(list) - 1) :
                        Above(At(list[i].turf), At(list[i + 1].turf))
                  /\ \A i \in DOMAIN list :
                        list[i].highlight <=> (i <= 2 /\ a.idle[At(list[i].turf)] >= 4)

\* A territory idle for 4 weeks is flagged in second place, and another one
\* idle as long is not flagged in third place
C23_Witness ==
    /\ calc.op = "distribution"
    /\ \E i \in DOMAIN calc.out.repRankings :
          LET list == calc.out.repRankings[i].list
          IN  /\ calc.out.repRankings[i].rep = <<"a">>
              /\ Len(list) >= 3
              /\ list[2].highlight /\ ~list[3].highlight /\ list[3].weeksIdle >= 4

(***************************************************************************)
(* Properties of the rotation guardrails                                   *)
(***************************************************************************)
\* The maximal runs of one territory in the scanned weeks 0..GuardrailWeeks-1
\* (week 0 is the current week), as the sheet assigns the weeks
RunsOf(assigned) ==
    {r \in [lo : 0..(GuardrailWeeks - 1), hi : 0..(GuardrailWeeks - 1)] :
        /\ r.lo <= r.hi /\ assigned[r.lo] # <<>>
        /\ \A k \in r.lo..r.hi : assigned[k] = assigned[r.lo]
        /\ r.lo = 0 \/ assigned[r.lo - 1] # assigned[r.lo]
        /\ r.hi = GuardrailWeeks - 1 \/ assigned[r.hi + 1] # assigned[r.lo]}

\* The Monday key of the week k weeks before the current one
WeekName(k) ==
    LET mon == mondayOfWeek(calc.in.today)
    IN  weekKey(NormDay(mon.y, mon.m, mon.d - (7 * k)))

\* C21: when every week of the rep has one territory at most, every maximal
\* run of more than 2 consecutive weeks in one territory within the 12 most
\* recent weeks gives exactly one warning with that territory, the run's
\* length and the run's weeks, and no other warning exists.
C21_OneWarningPerLongRun ==
    (calc.op = "rotationWarnings" /\ calc.in.extra.at = "none") =>
        LET long == {r \in RunsOf(calc.in.assigned) : r.hi - r.lo + 1 > 2}
            Of(r) == [rep |-> <<"a">>, turf |-> calc.in.assigned[r.lo],
                      streak |-> r.hi - r.lo + 1,
                      weeks |-> [i \in 1..(r.hi - r.lo + 1) |-> WeekName(r.lo + i - 1)]]
        IN  /\ Len(calc.out) = Cardinality(long)
            /\ \A r \in long :
                  Cardinality({i \in DOMAIN calc.out : calc.out[i] = Of(r)}) = 1

\* Four consecutive weeks in one territory: one warning with streak 4
C21_Witness ==
    /\ calc.op = "rotationWarnings" /\ calc.in.extra.at = "none"
    /\ \A k \in 0..3 : calc.in.assigned[k] = <<"t">>
    /\ calc.in.assigned[4] = <<>>
    /\ Len(calc.out) = 1 /\ calc.out[1].streak = 4

\* C29: the warnings depend only on which turf entries the grid holds, not on
\* the order of its rows: exchanging any two rows gives the same warnings,
\* also when a rep has two territories in one week
C29_RowOrderIrrelevant ==
    calc.op = "rotationWarnings" =>
        LET es == calc.in.entries
            Exchanged(i, j) ==
                [k \in DOMAIN es |-> IF k = i THEN es[j] ELSE IF k = j THEN es[i] ELSE es[k]]
        IN  \A i, j \in DOMAIN es :
               Range(rotationWarnings(Exchanged(i, j), calc.in.today)) = Range(calc.out)

\* The same for grids in which every week of the rep has one territory at most
C29_RowOrderIrrelevantWithoutDuplicates ==
    (calc.op = "rotationWarnings" /\ calc.in.extra.at = "none") =>
        LET es == calc.in.entries
            Exchanged(i, j) ==
                [k \in DOMAIN es |-> IF k = i THEN es[j] ELSE IF k = j THEN es[i] ELSE es[k]]
        IN  \A i, j \in DOMAIN es :
               Range(rotationWarnings(Exchanged(i, j), calc.in.today)) = Range(calc.out)

(***************************************************************************)
(* Properties of the parsers                                               *)
(***************************************************************************)
\* C25: normNum reads a text that ends in a comma and one or two digits as
\* comma-decimal (the comma is the decimal point, periods group thousands),
\* any other text after dropping every character but digits, period and
\* minus sign, and gives 0 for an empty text or one that writes no number
C25_NormNum ==
    calc.op = "normNum" => DecCmp(calc.out, calc.in.value) = 0

\* "1.234,56" has been read as 1234.56, and so has "1,234.56"
C25_Witness ==
    /\ calc.op = "normNum"
    /\ calc.in.text \in {<<"1",".","2","3","4",",","5","6">>, <<"1",",","2","3","4",".","5","6">>}
    /\ calc.out = [num |-> 123456, scale |-> 2]

\* C26: parseMonthKey gives the same (year, month) pair for the forms
\* MONTH_NAME YYYY, MM-YYYY and YYYY-MM of one month, gives null for a text
\* of none of the three forms, and every pair it gives has a month in 1..12
C26_MonthKeyForms ==
    calc.op = "parseMonthKey" =>
        /\ calc.in.form \in {"name", "mm-yyyy", "yyyy-mm"} =>
               calc.out = [ok |-> TRUE, y |-> calc.in.y, m |-> calc.in.m]
        /\ calc.in.form = "other" => ~calc.out.ok
        /\ calc.out.ok => calc.out.m \in 1..12

(***************************************************************************)
(* Properties of the dashboard's fetch cycles                              *)
(***************************************************************************)

\* The cycle c takes a step: its activation moves on or ends
Steps(c) == c \in cycles /\ c \notin cycles'

\* The cycle c returns from loadData in this step
Completes(c) ==
    /\ Running(c) /\ Steps(c)
    /\ \A d \in cycles' : d.myId = c.myId => ~Running(d)

\* A loadData call starts in this step
Starts ==
    /\ requestIdRef' = requestIdRef + 1
    /\ \E d \in cycles' \ cycles : d.myId = requestIdRef' /\ d.pc = "fetch1"

\* The cycle c no longer holds the latest request id
Superseded(c) == Running(c) /\ c.myId # requestIdRef

\* The snapshots the view shows
Displayed == {t \in Snapshots : turfRaw = ParsedRaw[t] /\ rows = ParsedRows[t]}

\* C6: a fetch cycle that was superseded by a later loadData call, or
\* invalidated by unmount, leaves rows, turfRaw and error unchanged in every
\* step it takes, whether its network calls succeed or fail.
C6_OnlyLatestChangesView ==
    [][\A c \in cycles :
          (Superseded(c) /\ Steps(c)) => UNCHANGED <<rows, turfRaw, error>>]_vars

\* C7: while the fetch cycle of a manual refresh is running, no other fetch
\* cycle is running.
C7_ManualRefreshAlone ==
    \A c \in cycles : \A d \in cycles :
        (c.by = "manual" /\ Running(c) /\ Running(d)) => d = c

\* C8 as stated: a set error state is cleared only by a step in which a
\* fetch cycle completes; starting a cycle does not clear it.
C8_ErrorUntilSuccess ==
    [][(error # "" /\ error' = "") => \E c \in cycles : Completes(c)]_vars

\* C8, amended: a set error state stays set until a loadData call starts;
\* only the first step of a fetch cycle clears it, and no completing cycle does.
C8_ErrorUntilNextStart ==
    [][(error # "" /\ error' = "") =>
          (Starts /\ loading' /\ \A c \in cycles : ~Completes(c))]_vars

\* A failed cycle's error is on display, no cycle has started since, and the
\* next one can start
C8_Witness ==
    /\ Mounted /\ error \in FetchErrors /\ ~loading
    /\ rows = <<>> /\ turfRaw = <<>>
    /\ requestIdRef < MaxCycles

\* C9: a fetch cycle goes on to a second network call only when the hash of
\* its first snapshot differs from the hash of the last accepted snapshot,
\* the one the view shows.
C9_SecondCallOnlyOnChange ==
    [][\A c \in cycles : \A d \in cycles' :
          (c.pc = "fetch1" /\ d.myId = c.myId /\ d.pc = "delay")
              => \A t \in Displayed : d.snap1.h # hash(t)]_vars

\* C10: rows and turfRaw are both empty, or both are what one and the same
\* CSV snapshot parses to.
C10_OneSnapshot ==
    \/ rows = <<>> /\ turfRaw = <<>>
    \/ \E t \in Snapshots : rows = ParsedRows[t] /\ turfRaw = ParsedRaw[t]

\* A later cycle has replaced what an earlier one showed: the view shows the
\* sheet whose only row is dropped, accepted by a cycle that compared it
\* against the hash of the other sheet
C10_Witness ==
    /\ Mounted /\ ~loading /\ error = ""
    /\ turfRaw = ParsedRaw[CsvB] /\ rows = ParsedRows[CsvB]
    /\ timerFn # 0 /\ lastHashRef[timerFn] = hash(CsvB)
    /\ requestIdRef >= 2

(***************************************************************************)
(* Properties of the totals                                                *)
(***************************************************************************)
\* C28: in every context the monthly sale count is at most the year-to-date
\* sale count, for the company and for each rep: a record counted for the
\* context month also lies in the year-to-date window
C28_MonthWithinYtd ==
    /\ calc.op = "company" =>
          calc.out.company.mSalesCount <= calc.out.company.ySalesCount
    /\ calc.op = "repRows" =>
          \A i \in DOMAIN calc.out : calc.out[i].mSales <= calc.out[i].ySales

\* In live mode a rep has one sale in the context month and two in the year
C28_Witness ==
    /\ calc.op = "repRows"
    /\ calc.in.tc.live
    /\ \E i \in DOMAIN calc.out : calc.out[i].mSales = 1 /\ calc.out[i].ySales = 2

(***************************************************************************)
(* Properties of the login redirect                                        *)
(***************************************************************************)
\* C30: for every next field a client can submit, POST /api/auth with the
\* right credentials redirects to a URL of the request's own origin; with
\* wrong credentials it redirects to /login with err=1 and sets no cookie
C30_RedirectStaysOnOrigin ==
    calc.op = "authPOST" =>
        /\ calc.out.status = 307
        /\ origin(calc.out.location) = origin(calc.in.url)
        /\ ~calc.out.set =>
              /\ calc.out.location.path = PLogin
              /\ calc.out.err
        /\ calc.out.set <=>
              (calc.in.form.username = ADMIN_USER /\ calc.in.form.password = ADMIN_PASS)

\* The same for next fields that are absent, a path or a relative reference
C30_PathsStayOnOrigin ==
    (calc.op = "authPOST" /\ calc.in.kind # "url") =>
        origin(calc.out.location) = origin(calc.in.url)

\* The cycle started last has run to its end
LatestDone == requestIdRef > 0 /\ ~\E c \in cycles : Running(c) /\ c.myId = requestIdRef

\* C27: on the mounted dashboard, loading is false whenever the fetch cycle
\* started last has completed, and when every network call completes, each
\* state with loading = true is followed by one with loading = false
C27_LoadingEnds ==
    /\ [](Mounted /\ LatestDone => ~loading)
    /\ (Mounted /\ loading) ~> (~loading \/ ~Mounted)

\* The first half of C27 alone
C27_LoadingFalseWhenDone == Mounted /\ LatestDone => ~loading

\* The second half of C27 alone
C27_LoadingEventuallyFalse == (Mounted /\ loading) ~> (~loading \/ ~Mounted)

\* Every network call completes, with at most MaxCycles cycles started
SpecDashBounded == Init /\ [][NextDash]_vars /\ WF_vars(Settle)
====
